---- MODULE Spec2Model ----
(***************************************************************************)
(* Verification model of pr-summarizer-bot's resilience layer:             *)
(*   - CacheService.checkRateLimit / resetRateLimit  (services/cache.ts)   *)
(*   - SummarizerService circuit breaker and retry   (services/summarizer) *)
(* Each part has its own specification (SpecRL, SpecCB) over the shared    *)
(* variable tuple; a specification leaves the other part's variables at    *)
(* their initial values.                                                   *)
(***************************************************************************)
EXTENDS Integers, Sequences, FiniteSets, TLC

(***************************************************************************)
(* Bounds of the model                                                     *)
(***************************************************************************)
\* largest maxRequests argument passed to checkRateLimit
MaxLimit == 2
\* number of summarize calls started one after another on one
\* SummarizerService instance
MaxCalls == 6
\* number of summarize calls started on an instance used by concurrent callers
MaxConcurrentCalls == 3
\* latest clock value (ms) at which a new step is still taken
MaxNow == 130000
\* events delivered to a process
MaxEvents == 2
\* events delivered to a process while the LLM is down
MaxOutageEvents == 6
\* events delivered while GitHub loses responses
MaxLossyEvents == 1
\* events delivered for pull requests of sizes around the limits
MaxDiffEvents == 2
\* events delivered to a process that handles them concurrently
MaxConcurrentEvents == 2
\* logAudit calls of a run of the audit log
MaxAuditWrites == 2

\* calls of checkRateLimit on one pair per window beyond the limit
ExtraCalls == 2

\* concurrent callers (events in flight) of the cache service
Callers == {"c1", "c2"}
\* (owner, repo) pairs: GitHub logins and repository names, whose alphabets
\* do not contain ':'
Pairs == {<<"a", "bc">>, <<"ab", "c">>}

(***************************************************************************)
(* Program constants: CacheService                                         *)
(***************************************************************************)
RATE_LIMIT_WINDOW == 3600
RATE_LIMIT_PREFIX == "rate:"
\* Redis reports a key without expiry as TTL -1
NoTTL == -1

VARIABLES
  maxRequests,    \* the limit the callers pass to checkRateLimit
  rateStore,      \* Redis keyspace under "rate:*": key -> [value, ttl]
  rlCall,         \* per caller: the checkRateLimit call awaiting its expire
  rlLast,         \* the most recently returned call and its result
  windowCalls,    \* history: checkRateLimit calls on a pair since its counter last vanished
  windowClean     \* history: no store command on the pair failed in that time
                  \* (a call records, with its ordinal, the value at its increment)

VARIABLES
  now,                      \* Date.now(), in ms
  circuitBreakerFailures,   \* SummarizerService.circuitBreakerFailures
  circuitBreakerResetTime,  \* SummarizerService.circuitBreakerResetTime
  sumCall,                  \* per caller: the summarize call in flight
  sumLast,                  \* the most recently finished summarize call
  callsStarted,             \* summarize calls started on the instance
  failStreak,               \* history: failed attempts since the last successful
                            \* attempt or cool-down reset
  failedCallsInRow,         \* history: summarize calls that threw since the last
                            \* call that returned a result
  trialCaller,              \* history: the caller whose call in flight was let
                            \* through by the cool-down reset ("none": no such call)
  llmInvocations            \* history: llm.invoke calls made on the instance

VARIABLES
  retry           \* a withRetry call: service, loop position, invocations of the
                  \* operation, the errors they raised, the outcome

VARIABLES
  summaryStore,   \* Redis keyspace under "summary:*": key -> [value, ttl]
  cacheLast,      \* the most recently returned cacheSummary / getSummary call
  cacheWritten    \* history, per tuple: the summary cacheSummary stored last and
                  \* that is still there, or why there is none

VARIABLES
  prEvent,        \* per handler slot: the handlePullRequestEvent invocation in flight
  prLast,         \* the most recently finished invocation
  prStarted,      \* events delivered to the process
  comments,       \* the comments on the pull request: [login, body]
  auditStore,     \* Redis keyspace under "audit:*": key -> [value, ttl]
  appLogin,       \* the login under which the app's comments appear
  eventBudget,    \* the number of events delivered in the run
  connections,    \* Redis connections opened by the handler and not yet quit
  procFailedEvents, \* history: events of the process in a row whose summarize
                    \* call threw after invoking the LLM
  procTrippedAt   \* history: the time of the last failed attempt of the event
                  \* that brought procFailedEvents to the threshold or beyond

VARIABLES
  auditCall,      \* the getAuditLogs call between redis.keys and its redis.get loop
  auditLast,      \* the most recently returned logAudit / getAuditLogs / healthCheck
  auditLogged,    \* history: [key, entry] of the logAudit calls of the audit log's
                  \* own specification that succeeded and whose key has not expired
  auditWrites     \* logAudit calls made in that specification

rlVars == <<maxRequests, rateStore, rlCall, rlLast, windowCalls, windowClean>>

cbVars == <<now, circuitBreakerFailures, circuitBreakerResetTime, sumCall, sumLast,
            callsStarted, failStreak, failedCallsInRow, trialCaller, llmInvocations>>

retryVars == <<retry>>

cacheVars == <<summaryStore, cacheLast, cacheWritten>>

auditVars == <<auditCall, auditLast, auditLogged, auditWrites>>

prVars == <<prEvent, prLast, prStarted, comments, auditStore, appLogin, eventBudget,
            connections, procFailedEvents, procTrippedAt,
            auditCall, auditLast, auditLogged, auditWrites>>

vars == <<maxRequests, rateStore, rlCall, rlLast, windowCalls, windowClean,
          now, circuitBreakerFailures, circuitBreakerResetTime, sumCall, sumLast,
          callsStarted, failStreak, failedCallsInRow, trialCaller, llmInvocations,
          retry, summaryStore, cacheLast, cacheWritten,
          prEvent, prLast, prStarted, comments, auditStore, appLogin, eventBudget,
          connections, procFailedEvents, procTrippedAt,
          auditCall, auditLast, auditLogged, auditWrites>>

(***************************************************************************)
(* CacheService: rate limiter                                              *)
(***************************************************************************)
Max(a, b) == IF a >= b THEN a ELSE b

getRateLimitKeyNoDelimiter(owner, repo) == RATE_LIMIT_PREFIX \o owner \o repo

\* `${this.RATE_LIMIT_PREFIX}${owner}:${repo}`
getRateLimitKey(owner, repo) == RATE_LIMIT_PREFIX \o owner \o ":" \o repo

KeyOf(pair) == getRateLimitKey(pair[1], pair[2])

StatusLimitedAtLimit(limit, current) ==
  [limit |-> limit,
   remaining |-> Max(0, limit - current),
   isLimited |-> current >= limit]

StatusRemainingUnclamped(limit, current) ==
  [limit |-> limit,
   remaining |-> limit - current,
   isLimited |-> current > limit]

\* try-branch result: remaining = Math.max(0, limit - current),
\* isLimited = current > limit
ComputedStatus(limit, current) ==
  [limit |-> limit,
   remaining |-> Max(0, limit - current),
   isLimited |-> current > limit]

FailClosedStatus(limit) ==
  [limit |-> limit, remaining |-> 0, isLimited |-> TRUE]

\* catch-branch result: fail open
FailOpenStatus(limit) ==
  [limit |-> limit, remaining |-> limit, isLimited |-> FALSE]

NoCall == [stage |-> "idle"]
NoResult == [op |-> "none"]

RedisIncrLostUpdate(store, key) ==
  IF key \in DOMAIN store
    THEN store
    ELSE [k \in DOMAIN store \cup {key} |->
            IF k = key THEN [value |-> 1, ttl |-> NoTTL] ELSE store[k]]

\* Redis INCR: a missing key is created at 1 without expiry
RedisIncr(store, key) ==
  IF key \in DOMAIN store
    THEN [store EXCEPT ![key].value = @ + 1]
    ELSE [k \in DOMAIN store \cup {key} |->
            IF k = key THEN [value |-> 1, ttl |-> NoTTL] ELSE store[k]]

\* Redis EXPIRE: sets the time to live of an existing key, no-op otherwise
RedisExpire(store, key, seconds) ==
  IF key \in DOMAIN store THEN [store EXCEPT ![key].ttl = seconds] ELSE store

RedisDelNothing(store, key) == store

\* Redis DEL
RedisDel(store, key) == [k \in DOMAIN store \ {key} |-> store[k]]

CheckResult(pair, limit, current, failed, ordinal, clean, status) ==
  [op |-> "check", pair |-> pair, limit |-> limit, current |-> current,
   failed |-> failed, threw |-> FALSE, ordinal |-> ordinal,
   clean |-> clean, status |-> status]

\* checkRateLimit up to the response of redis.incr: the increment reached the
\* store and returned `current`
CheckRateLimitIncr(c, pair) ==
  LET key == KeyOf(pair)
      store1 == RedisIncr(rateStore, key)
      current == store1[key].value
      ordinal == windowCalls[pair] + 1
  IN /\ rlCall[c] = NoCall
     /\ windowCalls[pair] < maxRequests + ExtraCalls
     /\ rateStore' = store1
     /\ windowCalls' = [windowCalls EXCEPT ![pair] = ordinal]
     /\ UNCHANGED <<maxRequests, windowClean, cbVars, retryVars, cacheVars, prVars>>
     /\ IF current = 1
          THEN /\ rlCall' = [rlCall EXCEPT ![c] =
                    [stage |-> "expire", pair |-> pair, limit |-> maxRequests,
                     current |-> current, ordinal |-> ordinal,
                     clean |-> windowClean[pair]]]
               /\ UNCHANGED rlLast
          ELSE /\ rlLast' = CheckResult(pair, maxRequests, current, FALSE, ordinal,
                                        windowClean[pair],
                                        ComputedStatus(maxRequests, current))
               /\ UNCHANGED rlCall

\* redis.incr rejects: the catch branch returns the fail-open status
CheckRateLimitIncrFails(c, pair) ==
  LET ordinal == windowCalls[pair] + 1
  IN /\ rlCall[c] = NoCall
     /\ windowCalls[pair] < maxRequests + ExtraCalls
     /\ windowCalls' = [windowCalls EXCEPT ![pair] = ordinal]
     /\ windowClean' = [windowClean EXCEPT ![pair] = FALSE]
     /\ rlLast' = CheckResult(pair, maxRequests, 0, TRUE, ordinal, FALSE,
                              FailOpenStatus(maxRequests))
     /\ UNCHANGED <<maxRequests, rateStore, rlCall, cbVars, retryVars, cacheVars, prVars>>

\* first increment of the window: redis.expire succeeds, the status is returned
CheckRateLimitExpire(c) ==
  LET call == rlCall[c]
  IN /\ call.stage = "expire"
     /\ rateStore' = RedisExpire(rateStore, KeyOf(call.pair), RATE_LIMIT_WINDOW)
     /\ rlCall' = [rlCall EXCEPT ![c] = NoCall]
     /\ rlLast' = CheckResult(call.pair, call.limit, call.current, FALSE, call.ordinal,
                              call.clean,
                              ComputedStatus(call.limit, call.current))
     /\ UNCHANGED <<maxRequests, windowCalls, windowClean, cbVars, retryVars, cacheVars, prVars>>

\* redis.expire rejects after the increment took effect: fail-open status
CheckRateLimitExpireFails(c) ==
  LET call == rlCall[c]
  IN /\ call.stage = "expire"
     /\ rlCall' = [rlCall EXCEPT ![c] = NoCall]
     /\ windowClean' = [windowClean EXCEPT ![call.pair] = FALSE]
     /\ rlLast' = CheckResult(call.pair, call.limit, call.current, TRUE, call.ordinal, FALSE,
                              FailOpenStatus(call.limit))
     /\ UNCHANGED <<maxRequests, rateStore, windowCalls, cbVars, retryVars, cacheVars, prVars>>

\* resetRateLimit: redis.del succeeds
ResetRateLimit(c, pair) ==
  /\ rlCall[c] = NoCall
  /\ rateStore' = RedisDel(rateStore, KeyOf(pair))
  /\ windowCalls' = [windowCalls EXCEPT ![pair] = 0]
  /\ windowClean' = [windowClean EXCEPT ![pair] = TRUE]
  /\ rlLast' = [op |-> "reset", pair |-> pair, threw |-> FALSE]
  /\ UNCHANGED <<maxRequests, rlCall, cbVars, retryVars, cacheVars, prVars>>

\* resetRateLimit: redis.del rejects, the error is rethrown
ResetRateLimitFails(c, pair) ==
  /\ rlCall[c] = NoCall
  /\ windowClean' = [windowClean EXCEPT ![pair] = FALSE]
  /\ rlLast' = [op |-> "reset", pair |-> pair, threw |-> TRUE]
  /\ UNCHANGED <<maxRequests, rateStore, rlCall, windowCalls, cbVars, retryVars, cacheVars, prVars>>

\* Redis removes a counter whose time to live has run out
KeyExpires(pair) ==
  LET key == KeyOf(pair)
  IN /\ key \in DOMAIN rateStore
     /\ rateStore[key].ttl # NoTTL
     /\ rateStore' = RedisDel(rateStore, key)
     /\ windowCalls' = [windowCalls EXCEPT ![pair] = 0]
     /\ windowClean' = [windowClean EXCEPT ![pair] = TRUE]
     /\ UNCHANGED <<maxRequests, rlCall, rlLast, cbVars, retryVars, cacheVars, prVars>>

(***************************************************************************)
(* SummarizerService: circuit breaker and retry                            *)
(***************************************************************************)
MAX_RETRIES == 2
INITIAL_RETRY_DELAY == 2000
CIRCUIT_BREAKER_THRESHOLD == 5
\* Date.now() + 60000 in the catch block of summarize
CIRCUIT_BREAKER_COOLDOWN == 60000
\* Math.random() * 1000 lies in [0, 1000): its extremes in whole ms
Jitters == {0, 999}
\* amounts by which the clock advances between two steps of the program
TickSteps == {10000, 60000}

\* callers of summarize on one SummarizerService instance: one caller making
\* its calls one after another, or concurrent callers (events in flight)
OneSummarizer == {"s1"}
Summarizers == {"s1", "s2"}

\* PRContext as hasInsufficientContext reads it: diff.length, commits.length,
\* description.length (0: no description)
Contexts ==
  {[diffLen |-> 51, commits |-> 1, descLen |-> 0],
   [diffLen |-> 50, commits |-> 1, descLen |-> 30]}

\* errors raised by llm.invoke, as isRetriableError reads them: status
\* (0: none), the words of message, code ("": none)
Err500 == [isObject |-> TRUE, status |-> 500, message |-> <<"Server", "error">>, code |-> ""]
Err400 == [isObject |-> TRUE, status |-> 400, message |-> <<"Bad", "request">>, code |-> ""]
\* new Error('Invalid JSON response from LLM') thrown by parseResponse
ParseError ==
  [isObject |-> TRUE, status |-> 0,
   message |-> <<"Invalid", "JSON", "response", "from", "LLM">>, code |-> ""]
LLMErrors == {Err500, Err400}

Includes(message, word) == \E i \in 1..Len(message) : message[i] = word

\* SummarizerService.isRetriableError
isRetriableError(error) ==
  IF ~error.isObject THEN FALSE
  ELSE IF error.status = 429 \/ (error.status # 0 /\ error.status >= 500) THEN TRUE
  ELSE IF Includes(error.message, "timeout") \/ Includes(error.message, "ETIMEDOUT") THEN TRUE
  ELSE IF error.code = "ECONNRESET" \/ error.code = "ENOTFOUND" THEN TRUE
  ELSE FALSE

\* SummarizerService.hasInsufficientContext
hasInsufficientContext(context) ==
  LET hasDiff == context.diffLen > 50
      hasCommits == context.commits > 0
      hasDescription == context.descLen > 20
  IN IF ~hasDiff THEN TRUE
     ELSE IF ~hasCommits /\ ~hasDescription THEN TRUE
     ELSE FALSE

Pow2(n) == IF n = 0 THEN 1 ELSE IF n = 1 THEN 2 ELSE 4

\* INITIAL_RETRY_DELAY * Math.pow(2, attempt) + Math.random() * 1000
RetryDelay(attempt, jitter) == INITIAL_RETRY_DELAY * Pow2(attempt) + jitter

isCircuitOpenNever(failures, resetTime, time) ==
  [open |-> FALSE, failures |-> failures, resetTime |-> resetTime]

\* SummarizerService.isCircuitOpen: the value returned and the fields after it
isCircuitOpen(failures, resetTime, time) ==
  IF failures >= CIRCUIT_BREAKER_THRESHOLD
    THEN IF time < resetTime
           THEN [open |-> TRUE, failures |-> failures, resetTime |-> resetTime]
           ELSE [open |-> FALSE, failures |-> 0, resetTime |-> 0]
    ELSE [open |-> FALSE, failures |-> failures, resetTime |-> resetTime]

recordFailureFirstOpening(failures, resetTime, time) ==
  [failures |-> failures + 1,
   resetTime |-> IF failures + 1 >= CIRCUIT_BREAKER_THRESHOLD /\ resetTime = 0
                   THEN time + CIRCUIT_BREAKER_COOLDOWN ELSE resetTime]

recordFailureAboveThreshold(failures, resetTime, time) ==
  [failures |-> failures + 1,
   resetTime |-> IF failures + 1 > CIRCUIT_BREAKER_THRESHOLD
                   THEN time + CIRCUIT_BREAKER_COOLDOWN ELSE resetTime]

\* catch block of the operation in summarize
recordFailure(failures, resetTime, time) ==
  [failures |-> failures + 1,
   resetTime |-> IF failures + 1 >= CIRCUIT_BREAKER_THRESHOLD
                   THEN time + CIRCUIT_BREAKER_COOLDOWN ELSE resetTime]

NoSummarize == [stage |-> "idle"]

CallBudget == IF DOMAIN sumCall = OneSummarizer THEN MaxCalls ELSE MaxConcurrentCalls

\* summarize up to its first await: breaker check, context check, first
\* llm.invoke of withRetry
StartSummarize(s, context) ==
  LET check == isCircuitOpen(circuitBreakerFailures, circuitBreakerResetTime, now)
      coolDownReset == check.failures # circuitBreakerFailures
  IN /\ sumCall[s] = NoSummarize
     /\ callsStarted < CallBudget
     /\ now <= MaxNow
     /\ callsStarted' = callsStarted + 1
     /\ circuitBreakerFailures' = check.failures
     /\ circuitBreakerResetTime' = check.resetTime
     /\ failStreak' = IF coolDownReset THEN 0 ELSE failStreak
     /\ IF check.open
          THEN /\ sumLast' = [outcome |-> "circuit_open"]
               /\ failedCallsInRow' = failedCallsInRow + 1
               /\ UNCHANGED <<sumCall, trialCaller, llmInvocations>>
          ELSE IF hasInsufficientContext(context)
          THEN /\ sumLast' = [outcome |-> "needs_input"]
               /\ failedCallsInRow' = 0
               /\ UNCHANGED <<sumCall, trialCaller, llmInvocations>>
          ELSE /\ sumCall' = [sumCall EXCEPT ![s] = [stage |-> "invoking", attempt |-> 0]]
               /\ trialCaller' = IF coolDownReset THEN s ELSE trialCaller
               /\ llmInvocations' = llmInvocations + 1
               /\ UNCHANGED <<sumLast, failedCallsInRow>>
     /\ UNCHANGED <<now, rlVars, retryVars, cacheVars, prVars>>

\* llm.invoke resolves with a response that parseResponse accepts
AttemptSucceeds(s) ==
  /\ sumCall[s].stage = "invoking"
  /\ circuitBreakerFailures' = 0
  /\ failStreak' = 0
  /\ failedCallsInRow' = 0
  /\ sumCall' = [sumCall EXCEPT ![s] = NoSummarize]
  /\ sumLast' = [outcome |-> "ok"]
  /\ trialCaller' = IF trialCaller = s THEN "none" ELSE trialCaller
  /\ UNCHANGED <<now, circuitBreakerResetTime, callsStarted, llmInvocations, rlVars, retryVars, cacheVars, prVars>>

\* llm.invoke rejects with `error`, or resolves with a response that
\* parseResponse rejects (error = ParseError): the catch block of the
\* operation, then the catch block of withRetry
AttemptFails(s, error, jitter) ==
  LET rec == recordFailure(circuitBreakerFailures, circuitBreakerResetTime, now)
      attempt == sumCall[s].attempt
  IN /\ sumCall[s].stage = "invoking"
     /\ circuitBreakerFailures' = rec.failures
     /\ circuitBreakerResetTime' = rec.resetTime
     /\ failStreak' = failStreak + 1
     /\ IF ~isRetriableError(error) \/ attempt = MAX_RETRIES
          THEN /\ sumCall' = [sumCall EXCEPT ![s] = NoSummarize]
               /\ sumLast' = [outcome |-> "error", error |-> error]
               /\ failedCallsInRow' = failedCallsInRow + 1
               /\ trialCaller' = IF trialCaller = s THEN "none" ELSE trialCaller
          ELSE /\ sumCall' = [sumCall EXCEPT ![s] =
                    [stage |-> "sleeping", attempt |-> attempt,
                     wakeAt |-> now + RetryDelay(attempt, jitter)]]
               /\ UNCHANGED <<sumLast, failedCallsInRow, trialCaller>>
     /\ UNCHANGED <<now, callsStarted, llmInvocations, rlVars, retryVars, cacheVars, prVars>>

\* the sleep of withRetry is over: next iteration of the loop, llm.invoke again
WakeAndRetry(s) ==
  /\ sumCall[s].stage = "sleeping"
  /\ now >= sumCall[s].wakeAt
  /\ sumCall' = [sumCall EXCEPT ![s] =
        [stage |-> "invoking", attempt |-> sumCall[s].attempt + 1]]
  /\ llmInvocations' = llmInvocations + 1
  /\ UNCHANGED <<now, circuitBreakerFailures, circuitBreakerResetTime, sumLast,
                 callsStarted, failStreak, failedCallsInRow, trialCaller, rlVars, retryVars, cacheVars, prVars>>

\* time passes
Tick(d) ==
  /\ now + d <= MaxNow
  /\ now' = now + d
  /\ UNCHANGED <<circuitBreakerFailures, circuitBreakerResetTime, sumCall, sumLast,
                 callsStarted, failStreak, failedCallsInRow, trialCaller,
                 llmInvocations, rlVars, retryVars, cacheVars, prVars>>

(***************************************************************************)
(* withRetry of GitHubService and SummarizerService                        *)
(***************************************************************************)
GITHUB_MAX_RETRIES == 2
GITHUB_INITIAL_RETRY_DELAY == 1000

Services == {"github", "summarizer"}

\* errors an operation can raise, as the two isRetriableError read them
Err429 == [isObject |-> TRUE, status |-> 429, message |-> <<"Rate", "limited">>, code |-> ""]
Err503 == [isObject |-> TRUE, status |-> 503, message |-> <<"Service", "unavailable">>, code |-> ""]
Err404 == [isObject |-> TRUE, status |-> 404, message |-> <<"Not", "Found">>, code |-> ""]
ErrTimeout ==
  [isObject |-> TRUE, status |-> 0, message |-> <<"Request", "timeout">>, code |-> ""]
ErrETIMEDOUT ==
  [isObject |-> TRUE, status |-> 0, message |-> <<"connect", "ETIMEDOUT">>, code |-> "ETIMEDOUT"]
ErrECONNRESET ==
  [isObject |-> TRUE, status |-> 0, message |-> <<"read", "ECONNRESET">>, code |-> "ECONNRESET"]
ErrENOTFOUND ==
  [isObject |-> TRUE, status |-> 0, message |-> <<"getaddrinfo", "ENOTFOUND">>, code |-> "ENOTFOUND"]
\* a thrown value that is not an object (a string, undefined)
ErrNonObject == [isObject |-> FALSE, status |-> 0, message |-> << >>, code |-> ""]

ErrorShapes ==
  {Err429, Err500, Err503, Err400, Err404, ErrTimeout, ErrETIMEDOUT,
   ErrECONNRESET, ErrENOTFOUND, ErrNonObject}

\* values an operation can resolve with
OperationValues == {"v1", "v2"}

\* GitHubService.isRetriableError
gitHubIsRetriableError(error) ==
  IF ~error.isObject THEN FALSE
  ELSE IF error.status = 429 \/ (error.status # 0 /\ error.status >= 500) THEN TRUE
  ELSE IF Includes(error.message, "timeout") \/ Includes(error.message, "ETIMEDOUT") THEN TRUE
  ELSE FALSE

\* this.isRetriableError(error) in the withRetry of the service
Retriable(service, error) ==
  IF service = "github" THEN gitHubIsRetriableError(error) ELSE isRetriableError(error)

MaxRetriesOf(service) == IF service = "github" THEN GITHUB_MAX_RETRIES ELSE MAX_RETRIES

InitialRetryDelayShared(service) == INITIAL_RETRY_DELAY

InitialRetryDelayOf(service) ==
  IF service = "github" THEN GITHUB_INITIAL_RETRY_DELAY ELSE INITIAL_RETRY_DELAY

GivesUpOneLater(service, error, attempt) ==
  ~Retriable(service, error) \/ attempt = MaxRetriesOf(service) + 1

\* if (!isRetriable || attempt === this.MAX_RETRIES) in the catch of withRetry
GivesUp(service, error, attempt) ==
  ~Retriable(service, error) \/ attempt = MaxRetriesOf(service)

ThrownFirst(raised) == raised[1]

\* `throw error` in the catch of withRetry: the error caught in this iteration
Thrown(raised) == raised[Len(raised)]

\* withRetry is entered: attempt = 0, operation() is invoked
WithRetryInit(service) ==
  [service |-> service, stage |-> "invoking", attempt |-> 0, invocations |-> 1,
   raised |-> << >>, delays |-> << >>, outcome |-> [kind |-> "none"]]

\* operation() resolves with `value`: return await operation()
OperationSucceeds(value) ==
  /\ retry.stage = "invoking"
  /\ retry' = [retry EXCEPT !.stage = "done",
                            !.outcome = [kind |-> "return", value |-> value,
                                         resolved |-> value]]
  /\ UNCHANGED <<rlVars, cbVars, cacheVars, prVars>>

\* operation() rejects with an error of shape `shape`: the catch of withRetry.
\* The error object is the one this invocation created (raisedBy).
OperationFails(shape, jitter) ==
  LET error == shape @@ [raisedBy |-> retry.invocations]
      raised == Append(retry.raised, error)
  IN /\ retry.stage = "invoking"
     /\ IF GivesUp(retry.service, error, retry.attempt)
          THEN retry' = [retry EXCEPT !.stage = "done", !.raised = raised,
                                      !.outcome = [kind |-> "throw", error |-> Thrown(raised)]]
          ELSE retry' = [retry EXCEPT !.stage = "sleeping", !.raised = raised,
                                      !.delays = Append(retry.delays,
                                         InitialRetryDelayOf(retry.service) * Pow2(retry.attempt)
                                           + jitter)]
     /\ UNCHANGED <<rlVars, cbVars, cacheVars, prVars>>

\* the sleep is over: attempt++, operation() is invoked again
SleepOver ==
  /\ retry.stage = "sleeping"
  /\ retry' = [retry EXCEPT !.stage = "invoking", !.attempt = retry.attempt + 1,
                            !.invocations = retry.invocations + 1]
  /\ UNCHANGED <<rlVars, cbVars, cacheVars, prVars>>

(***************************************************************************)
(* CacheService: summary cache                                             *)
(***************************************************************************)
SUMMARY_TTL == 86400
SUMMARY_PREFIX == "summary:"

\* (owner, repo, prNumber, sha) of the cached summaries
CacheTuples == {<<"a", "bc", 1, "12">>, <<"ab", "c", 11, "2">>}

\* PRSummary values; `notes` is optional
SummaryPlain == [what |-> "Test change", why |-> "Test reason", impact |-> "Test impact"]
SummaryWithNotes ==
  [what |-> "Added user authentication", why |-> "To secure the application",
   impact |-> "Users must now log in", notes |-> "Database migration required"]
Summaries == {SummaryPlain, SummaryWithNotes}

Digit(d) == <<"0", "1", "2", "3", "4", "5", "6", "7", "8", "9">>[d + 1]

RECURSIVE NumberToString(_)
\* `${prNumber}` of a non-negative integer
NumberToString(n) ==
  IF n < 10 THEN Digit(n) ELSE NumberToString(n \div 10) \o Digit(n % 10)

getSummaryKeyNoDelimiter(owner, repo, prNumber, sha) ==
  SUMMARY_PREFIX \o owner \o repo \o NumberToString(prNumber) \o sha

\* `${this.SUMMARY_PREFIX}${owner}:${repo}:${prNumber}:${sha}`
getSummaryKey(owner, repo, prNumber, sha) ==
  SUMMARY_PREFIX \o owner \o ":" \o repo \o ":" \o NumberToString(prNumber) \o ":" \o sha

SummaryKeyOf(t) == getSummaryKey(t[1], t[2], t[3], t[4])

\* JSON text as its sequence of tokens
Punct(c) == [t |-> c, v |-> ""]
Str(s) == [t |-> "string", v |-> s]
Num(n) == [t |-> "number", v |-> "", n |-> n]
NullLiteral == [t |-> "null", v |-> ""]
\* text outside the JSON grammar
Garbage == [t |-> "garbage", v |-> "not valid json"]

\* property order of a PRSummary object literal
KeyOrder == <<"what", "why", "impact", "notes">>

RECURSIVE Members(_, _)
Members(object, keys) ==
  IF keys = << >> THEN << >>
  ELSE <<Str(keys[1]), Punct(":"), Str(object[keys[1]])>>
         \o (IF Len(keys) > 1 THEN <<Punct(",")>> ELSE << >>)
         \o Members(object, Tail(keys))

\* JSON.stringify of an object with string properties: own properties in
\* order, a property that is absent (undefined) is left out
JSONStringify(object) ==
  <<Punct("{")>>
    \o Members(object, SelectSeq(KeyOrder, LAMBDA k : k \in DOMAIN object))
    \o <<Punct("}")>>

SyntaxError == [ok |-> FALSE]
EmptyObject == [k \in {} |-> ""]

RECURSIVE ParseMembers(_, _, _)
\* members of an object from token i on: "key" : value [, ...] }, a value
\* being a string or a number
ParseMembers(tokens, i, object) ==
  IF i + 3 > Len(tokens) THEN SyntaxError
  ELSE IF \/ tokens[i].t # "string"
          \/ tokens[i + 1] # Punct(":")
          \/ tokens[i + 2].t \notin {"string", "number"}
    THEN SyntaxError
  ELSE LET key == tokens[i].v
           value == IF tokens[i + 2].t = "number" THEN tokens[i + 2].n
                    ELSE tokens[i + 2].v
           extended == [k \in DOMAIN object \cup {key} |->
                          IF k = key THEN value ELSE object[k]]
       IN IF tokens[i + 3] = Punct("}")
            THEN IF i + 3 = Len(tokens)
                   THEN [ok |-> TRUE, kind |-> "object", value |-> extended]
                   ELSE SyntaxError
          ELSE IF tokens[i + 3] = Punct(",")
            THEN ParseMembers(tokens, i + 4, extended)
          ELSE SyntaxError

\* JSON.parse: the value, or SyntaxError thrown
JSONParse(tokens) ==
  IF tokens = <<NullLiteral>> THEN [ok |-> TRUE, kind |-> "null"]
  ELSE IF Len(tokens) >= 2 /\ tokens[1] = Punct("{")
    THEN IF tokens[2] = Punct("}")
           THEN IF Len(tokens) = 2
                  THEN [ok |-> TRUE, kind |-> "object", value |-> EmptyObject]
                  ELSE SyntaxError
           ELSE ParseMembers(tokens, 2, EmptyObject)
  ELSE SyntaxError

\* values found under a summary key that cacheSummary did not write:
\* the empty string, truncated JSON, text that is not JSON, JSON of
\* another shape
ForeignValues ==
  {<< >>,
   SubSeq(JSONStringify(SummaryPlain), 1, 7),
   <<Garbage>>,
   <<NullLiteral>>,
   <<Punct("{"), Punct("}")>>}

\* Redis SETEX: sets value and time to live, replacing what the key held
RedisSetex(store, key, seconds, value) ==
  [k \in DOMAIN store \cup {key} |->
     IF k = key THEN [value |-> value, ttl |-> seconds] ELSE store[k]]

\* Redis GET: the value, or null for a missing key
RedisGet(store, key) ==
  IF key \in DOMAIN store THEN [null |-> FALSE, value |-> store[key].value]
  ELSE [null |-> TRUE]

Null == [kind |-> "null"]

ParsedOrThrow(cached) ==
  LET parsed == JSONParse(cached)
  IN IF ~parsed.ok THEN [threw |-> TRUE, value |-> Null]
     ELSE IF parsed.kind = "null" THEN [threw |-> FALSE, value |-> Null]
     ELSE [threw |-> FALSE, value |-> [kind |-> "object", object |-> parsed.value]]

\* return JSON.parse(cached) as PRSummary, inside the try of getSummary
ParsedOrNull(cached) ==
  LET parsed == JSONParse(cached)
  IN IF ~parsed.ok THEN [threw |-> FALSE, value |-> Null]
     ELSE IF parsed.kind = "null" THEN [threw |-> FALSE, value |-> Null]
     ELSE [threw |-> FALSE, value |-> [kind |-> "object", object |-> parsed.value]]

\* getSummary with the store reachable: what it returns
getSummary(store, key) ==
  LET got == RedisGet(store, key)
  IN IF got.null \/ got.value = << >> THEN [threw |-> FALSE, value |-> Null]
     ELSE ParsedOrNull(got.value)

NeverWritten == [status |-> "never"]

\* cacheSummary: redis.setex succeeds
CacheSummary(t, summary) ==
  /\ summaryStore' =
        RedisSetex(summaryStore, SummaryKeyOf(t), SUMMARY_TTL, JSONStringify(summary))
  /\ cacheWritten' = [cacheWritten EXCEPT ![t] = [status |-> "written", value |-> summary]]
  /\ cacheLast' = [op |-> "cacheSummary", tuple |-> t, failed |-> FALSE, threw |-> FALSE]
  /\ UNCHANGED <<rlVars, cbVars, retryVars, prVars>>

\* cacheSummary: redis.setex rejects; the catch logs and returns
CacheSummaryFails(t, summary) ==
  /\ cacheLast' = [op |-> "cacheSummary", tuple |-> t, failed |-> TRUE, threw |-> FALSE]
  /\ UNCHANGED <<summaryStore, cacheWritten, rlVars, cbVars, retryVars, prVars>>

\* getSummary: redis.get succeeds
GetSummary(t) ==
  LET result == getSummary(summaryStore, SummaryKeyOf(t))
  IN /\ cacheLast' = [op |-> "getSummary", tuple |-> t, failed |-> FALSE,
                      threw |-> result.threw, value |-> result.value,
                      before |-> cacheWritten[t],
                      raw |-> RedisGet(summaryStore, SummaryKeyOf(t))]
     /\ UNCHANGED <<summaryStore, cacheWritten, rlVars, cbVars, retryVars, prVars>>

\* getSummary: redis.get rejects; the catch logs and returns null
GetSummaryFails(t) ==
  /\ cacheLast' = [op |-> "getSummary", tuple |-> t, failed |-> TRUE,
                   threw |-> FALSE, value |-> Null,
                   before |-> cacheWritten[t], raw |-> [null |-> TRUE]]
  /\ UNCHANGED <<summaryStore, cacheWritten, rlVars, cbVars, retryVars, prVars>>

\* the time to live of a summary key runs out
SummaryExpires(t) ==
  /\ SummaryKeyOf(t) \in DOMAIN summaryStore
  /\ summaryStore' = RedisDel(summaryStore, SummaryKeyOf(t))
  /\ cacheWritten' =
        [u \in CacheTuples |->
           IF SummaryKeyOf(u) = SummaryKeyOf(t) THEN [status |-> "gone"] ELSE cacheWritten[u]]
  /\ UNCHANGED <<cacheLast, rlVars, cbVars, retryVars, prVars>>

\* another writer of the store, or a damaged value: the key holds `raw`
ForeignWrite(t, raw) ==
  /\ summaryStore' = RedisSetex(summaryStore, SummaryKeyOf(t), SUMMARY_TTL, raw)
  /\ cacheWritten' =
        [u \in CacheTuples |->
           IF SummaryKeyOf(u) = SummaryKeyOf(t) THEN [status |-> "foreign"] ELSE cacheWritten[u]]
  /\ UNCHANGED <<cacheLast, rlVars, cbVars, retryVars, prVars>>

(***************************************************************************)
(* CacheService: audit log and health check                                *)
(***************************************************************************)
AUDIT_LOG_TTL == 604800
AUDIT_PREFIX == "audit:"

\* Math.random().toString(36).substring(7): the random suffix of an audit key
AuditSuffixes == {"x1", "x2"}
\* startTime and endTime of the queries
QueryTimes == {0, 60000, 120000}
\* the time that passes between two calls
AuditTicks == {60000}

handlerVars == <<prEvent, prLast, prStarted, comments, appLogin, eventBudget,
                 connections, procFailedEvents, procTrippedAt>>

\* `${this.AUDIT_PREFIX}${timestamp}:${suffix}`
getAuditKey(timestamp, suffix) ==
  AUDIT_PREFIX \o NumberToString(timestamp) \o ":" \o suffix

\* the AuditLogEntry of a summarized pull request: timestamp, correlationId
\* and action of the entry
EntryOf(correlationId, time) ==
  [timestamp |-> time, correlationId |-> correlationId, action |-> "pr_summarized"]

\* JSON.stringify of an AuditLogEntry
JSONStringifyEntry(entry) ==
  <<Punct("{"), Str("timestamp"), Punct(":"), Num(entry.timestamp), Punct(","),
    Str("correlationId"), Punct(":"), Str(entry.correlationId), Punct(","),
    Str("action"), Punct(":"), Str(entry.action), Punct("}")>>

InRangeExclusive(entry, startTime, endTime) ==
  /\ "timestamp" \in DOMAIN entry
  /\ entry["timestamp"] > startTime
  /\ entry["timestamp"] < endTime

\* entry.timestamp >= startTime && entry.timestamp <= endTime; a missing
\* timestamp (undefined) compares false
InRange(entry, startTime, endTime) ==
  /\ "timestamp" \in DOMAIN entry
  /\ entry["timestamp"] >= startTime
  /\ entry["timestamp"] <= endTime

RECURSIVE ScanLogs(_, _, _, _)
\* the loop of getAuditLogs over the keys redis.keys returned: redis.get,
\* JSON.parse, range filter; [threw, logs]
ScanLogs(store, keys, startTime, endTime) ==
  IF keys = << >> THEN [threw |-> FALSE, logs |-> << >>]
  ELSE LET data == RedisGet(store, keys[1])
           rest == ScanLogs(store, Tail(keys), startTime, endTime)
       IN IF data.null \/ data.value = << >> THEN rest
          ELSE LET parsed == JSONParse(data.value)
               IN IF ~parsed.ok \/ parsed.kind = "null"
                    THEN [threw |-> TRUE, logs |-> << >>]
                  ELSE IF rest.threw THEN rest
                  ELSE IF InRange(parsed.value, startTime, endTime)
                    THEN [threw |-> FALSE, logs |-> <<parsed.value>> \o rest.logs]
                  ELSE rest

RECURSIVE InsertDescending(_, _)
\* `entry` put behind the entries of `sorted` that do not compare after it
InsertDescending(sorted, entry) ==
  IF sorted = << >> THEN <<entry>>
  ELSE IF sorted[1]["timestamp"] >= entry["timestamp"]
    THEN <<sorted[1]>> \o InsertDescending(Tail(sorted), entry)
  ELSE <<entry>> \o sorted

RECURSIVE SortDescending(_)
\* logs.sort((a, b) => b.timestamp - a.timestamp): stable, latest first
SortDescending(logs) ==
  IF logs = << >> THEN << >>
  ELSE InsertDescending(SortDescending(SubSeq(logs, 1, Len(logs) - 1)), logs[Len(logs)])

\* getAuditLogs from the response of redis.keys on, the store reachable
getAuditLogs(store, keys, startTime, endTime) ==
  LET scanned == ScanLogs(store, keys, startTime, endTime)
  IN IF scanned.threw THEN scanned
     ELSE [threw |-> FALSE, logs |-> SortDescending(scanned.logs)]

\* the orders in which redis.keys may list the keys of the store
KeyLists(store) ==
  LET n == Cardinality(DOMAIN store)
  IN {list \in [1..n -> DOMAIN store] : \A i, j \in 1..n : list[i] = list[j] => i = j}

\* logAudit: redis.setex succeeds
LogAuditCall(correlationId, suffix) ==
  LET entry == EntryOf(correlationId, now)
      key == getAuditKey(entry.timestamp, suffix)
  IN /\ auditCall = NoCall
     /\ auditWrites < MaxAuditWrites
     /\ auditWrites' = auditWrites + 1
     /\ auditStore' = RedisSetex(auditStore, key, AUDIT_LOG_TTL, JSONStringifyEntry(entry))
     /\ auditLogged' = auditLogged \cup {[key |-> key, entry |-> entry]}
     /\ auditLast' = [op |-> "logAudit", failed |-> FALSE, threw |-> FALSE]
     /\ UNCHANGED <<auditCall, handlerVars, rlVars, cbVars, retryVars, cacheVars>>

\* logAudit: redis.setex rejects; the catch logs and returns
LogAuditCallFails(correlationId, suffix) ==
  /\ auditCall = NoCall
  /\ auditWrites < MaxAuditWrites
  /\ auditWrites' = auditWrites + 1
  /\ auditLast' = [op |-> "logAudit", failed |-> TRUE, threw |-> FALSE]
  /\ UNCHANGED <<auditStore, auditCall, auditLogged, handlerVars, rlVars, cbVars,
                 retryVars, cacheVars>>

\* getAuditLogs: redis.keys succeeds and lists the keys in some order
GetAuditLogsKeys(startTime, endTime, keys) ==
  /\ auditCall = NoCall
  /\ auditCall' = [stage |-> "scan", keys |-> keys, startTime |-> startTime,
                   endTime |-> endTime]
  /\ UNCHANGED <<auditStore, auditLast, auditLogged, auditWrites, handlerVars, rlVars,
                 cbVars, retryVars, cacheVars>>

\* getAuditLogs: every redis.get succeeds; filter, sort, return
GetAuditLogsScan ==
  LET call == auditCall
      result == getAuditLogs(auditStore, call.keys, call.startTime, call.endTime)
  IN /\ call.stage = "scan"
     /\ auditCall' = NoCall
     /\ auditLast' = [op |-> "getAuditLogs", failed |-> FALSE, threw |-> result.threw,
                      logs |-> result.logs, startTime |-> call.startTime,
                      endTime |-> call.endTime]
     /\ UNCHANGED <<auditStore, auditLogged, auditWrites, handlerVars, rlVars, cbVars,
                    retryVars, cacheVars>>

\* getAuditLogs: redis.keys or a redis.get rejects; the catch logs and rethrows
GetAuditLogsFails(startTime, endTime) ==
  /\ \/ auditCall = NoCall
     \/ /\ auditCall.stage = "scan"
        /\ auditCall.startTime = startTime
        /\ auditCall.endTime = endTime
  /\ auditCall' = NoCall
  /\ auditLast' = [op |-> "getAuditLogs", failed |-> TRUE, threw |-> TRUE,
                   logs |-> << >>, startTime |-> startTime, endTime |-> endTime]
  /\ UNCHANGED <<auditStore, auditLogged, auditWrites, handlerVars, rlVars, cbVars,
                 retryVars, cacheVars>>

\* healthCheck: redis.ping succeeds
HealthCheck ==
  /\ auditCall = NoCall
  /\ auditLast' = [op |-> "healthCheck", failed |-> FALSE, threw |-> FALSE,
                   value |-> TRUE]
  /\ UNCHANGED <<auditStore, auditCall, auditLogged, auditWrites, handlerVars, rlVars,
                 cbVars, retryVars, cacheVars>>

\* healthCheck: redis.ping rejects; the catch logs and returns false
HealthCheckFails ==
  /\ auditCall = NoCall
  /\ auditLast' = [op |-> "healthCheck", failed |-> TRUE, threw |-> FALSE,
                   value |-> FALSE]
  /\ UNCHANGED <<auditStore, auditCall, auditLogged, auditWrites, handlerVars, rlVars,
                 cbVars, retryVars, cacheVars>>

\* the retention of an audit key runs out
AuditExpires(key) ==
  /\ key \in DOMAIN auditStore
  /\ auditStore' = RedisDel(auditStore, key)
  /\ auditLogged' = {r \in auditLogged : r.key # key}
  /\ UNCHANGED <<auditCall, auditLast, auditWrites, handlerVars, rlVars, cbVars,
                 retryVars, cacheVars>>

(***************************************************************************)
(* handlePullRequestEvent                                                  *)
(***************************************************************************)
\* literal passed to checkRateLimit by the handler
HANDLER_MAX_REQUESTS == 10
\* config.processing.maxDiffSizeLines, default
MAX_DIFF_SIZE_LINES == 5000
BOT_LOGIN == "github-actions[bot]"
\* login under which the app's comments appear
AppLogins == {"github-actions[bot]", "pr-summarizer[bot]"}

\* handler invocations in flight
OneHandler == {"h1"}
\* the repository and pull request of the events
PRPair == <<"a", "bc">>
PRNumber == 1
\* head commits of the pull request
Shas == {"12", "2"}
PRTuple(sha) == <<PRPair[1], PRPair[2], PRNumber, sha>>
PRActions == {"opened", "synchronize", "reopened"}
\* pr.labels of an event
LabelSets == {{}, {"wip"}}
\* rate-limit counter of the repository left by earlier events of the window
PriorCounts == {0, 9}

\* what fetchDiff and fetchCommits return, and pr.body: additions, deletions,
\* fullDiff.length, commits.length, longest trimmed commit message,
\* description length (0: no description)
PullOk ==
  [additions |-> 6, deletions |-> 4, diffLen |-> 100, commits |-> 1,
   messageLen |-> 30, descLen |-> 0]
PullTooLarge ==
  [additions |-> 3000, deletions |-> 2001, diffLen |-> 100, commits |-> 1,
   messageLen |-> 30, descLen |-> 0]
PullThin ==
  [additions |-> 1, deletions |-> 0, diffLen |-> 40, commits |-> 1,
   messageLen |-> 30, descLen |-> 0]
PullEdge ==
  [additions |-> 1, deletions |-> 1, diffLen |-> 50, commits |-> 1,
   messageLen |-> 30, descLen |-> 0]
Pulls == {PullOk, PullTooLarge, PullThin, PullEdge}

\* pull requests around the limits of the diff-size check: no change, one
\* line, the limit itself, one line more
DiffPulls ==
  {[PullOk EXCEPT !.additions = size[1], !.deletions = size[2]] :
     size \in {<<0, 0>>, <<1, 0>>, <<0, MAX_DIFF_SIZE_LINES>>,
               <<MAX_DIFF_SIZE_LINES - 1, 1>>, <<MAX_DIFF_SIZE_LINES, 1>>}}

isValidDiffSizeBelowLimit(additions, deletions, maxDiffSize) ==
  LET totalChanges == additions + deletions
  IN totalChanges > 0 /\ totalChanges < maxDiffSize

\* validator.isValidDiffSize
isValidDiffSize(additions, deletions, maxDiffSize) ==
  LET totalChanges == additions + deletions
  IN totalChanges > 0 /\ totalChanges <= maxDiffSize

\* validator.hasMeaningfulContent
hasMeaningfulContent(pull) ==
  IF pull.diffLen < 50 THEN FALSE
  ELSE IF pull.commits = 0 THEN FALSE
  ELSE LET hasCommitMessages == pull.messageLen > 10
       IN IF ~hasCommitMessages /\ pull.descLen < 20 THEN FALSE ELSE TRUE

\* validator.shouldIgnoreByLabel
shouldIgnoreByLabel(prLabels, ignoreLabels) ==
  IF prLabels = {} \/ ignoreLabels = {} THEN FALSE
  ELSE \E label \in prLabels : label \in ignoreLabels

\* the ignore list the handler passes: []
HandlerIgnoreLabels == {}

\* config.rateLimiting: the defaults of RATE_LIMIT_MAX_REQUESTS and
\* RATE_LIMIT_WINDOW_SECONDS
CONFIG_MAX_REQUESTS == 1
CONFIG_WINDOW_SECONDS == 10

\* the ignore list of the documented configuration (ignoreLabels)
ConfiguredIgnoreLabels == {"wip", "draft"}

\* the result summarize returns on insufficient context
NeedsInputResult ==
  [summary |-> [what |-> "[NEEDS_INPUT]", why |-> "[NEEDS_INPUT]",
                impact |-> "[NEEDS_INPUT]", notes |-> "Insufficient source context"],
   tokensUsed |-> 0, model |-> "none"]

NoLLMResult == [model |-> "unset"]

\* formatSummaryAsMarkdown: the sections of the comment
formatSummaryAsMarkdown(summary) ==
  <<"### What Changed", summary["what"], "### Why", summary["why"],
    "### Impact", summary["impact"]>>
    \o (IF "notes" \in DOMAIN summary
          THEN <<"### Additional Notes", summary["notes"]>> ELSE << >>)

\* formatNeedsInputMessage
formatNeedsInputMessage == <<"Unable to generate summary">>

\* comments.find(comment => comment.user.login === botLogin): its id, 0 for null
findBotComment(list, botLogin) ==
  LET ids == {i \in 1..Len(list) : list[i].login = botLogin}
  IN IF ids = {} THEN 0 ELSE CHOOSE i \in ids : \A j \in ids : i <= j

IdleEvent == [stage |-> "idle"]

\* the invocation after its synchronous prefix: services constructed (a new
\* SummarizerService, breaker fields 0), labels checked, redis.incr issued;
\* storeFailed is history: a Redis command of checkRateLimit or getSummary
\* rejected during the invocation; postAttempt is the `attempt` of the
\* withRetry around createComment, created is history: the createComment
\* requests of the invocation that took effect while their response was lost
NewEvent(action, sha, labels) ==
  [stage |-> "rate_incr", action |-> action, sha |-> sha,
   failures |-> 0, resetTime |-> 0, attempt |-> 0, hit |-> FALSE, existing |-> 0,
   body |-> << >>, result |-> NoLLMResult, llm |-> 0, storeFailed |-> FALSE,
   postAttempt |-> 0, created |-> 0,
   steps |-> <<"label-filter", "rate-limit">>]

Outcome(ev, outcome, quit) == [outcome |-> outcome, quit |-> quit]

\* the invocation of h returns (quit: after await redis.quit()) or rethrows
Finish(h, ev, outcome, quit) ==
  /\ prEvent' = [prEvent EXCEPT ![h] = IdleEvent]
  /\ prLast' = Outcome(ev, outcome, quit)
  /\ connections' = IF quit THEN connections - 1 ELSE connections

\* the invocation of h goes on to its next await
Continue(h, ev) ==
  /\ prEvent' = [prEvent EXCEPT ![h] = ev]
  /\ UNCHANGED <<prLast, connections>>

Step(ev, name) == [ev EXCEPT !.steps = Append(@, name)]

\* an event is delivered: handlePullRequestEvent up to its first await
ReceiveEvent(h, action, sha, labels) ==
  /\ prEvent[h] = IdleEvent
  /\ prStarted < eventBudget
  /\ prStarted' = prStarted + 1
  /\ IF shouldIgnoreByLabel(labels, HandlerIgnoreLabels)
       THEN /\ prEvent' = prEvent
            /\ prLast' = Outcome([NewEvent(action, sha, labels) EXCEPT
                                     !.steps = <<"label-filter">>],
                                 "ignored-by-filter", TRUE)
            /\ UNCHANGED connections
       ELSE /\ prEvent' = [prEvent EXCEPT ![h] = NewEvent(action, sha, labels)]
            /\ connections' = connections + 1
            /\ UNCHANGED prLast
  /\ UNCHANGED <<comments, auditStore, appLogin, eventBudget, auditVars, procFailedEvents, procTrippedAt,
                 rlVars, cbVars, retryVars, cacheVars>>

AfterRateLimitUnchecked(h, ev, status) ==
  IF ev.action = "synchronize"
    THEN Continue(h, [Step(ev, "cache-lookup") EXCEPT !.stage = "cache_get"])
  ELSE Continue(h, [Step(ev, "fetch") EXCEPT !.stage = "fetch"])

\* the handler after checkRateLimit returned `status`
AfterRateLimit(h, ev, status) ==
  IF status.isLimited
    THEN Finish(h, ev, "rate-limited", TRUE)
  ELSE IF ev.action = "synchronize"
    THEN Continue(h, [Step(ev, "cache-lookup") EXCEPT !.stage = "cache_get"])
  ELSE Continue(h, [Step(ev, "fetch") EXCEPT !.stage = "fetch"])

\* checkRateLimit: redis.incr succeeds
RateLimitIncr(h) ==
  LET store == RedisIncr(rateStore, KeyOf(PRPair))
      current == store[KeyOf(PRPair)].value
  IN /\ prEvent[h].stage = "rate_incr"
     /\ rateStore' = store
     /\ IF current = 1
          THEN Continue(h, [prEvent[h] EXCEPT !.stage = "rate_expire"])
          ELSE AfterRateLimit(h, prEvent[h],
                              ComputedStatus(HANDLER_MAX_REQUESTS, current))
     /\ UNCHANGED <<prStarted, comments, auditStore, appLogin, eventBudget, auditVars, procFailedEvents,
                    procTrippedAt, maxRequests, rlCall, rlLast, windowCalls,
                    windowClean, cbVars, retryVars, cacheVars>>

\* checkRateLimit: redis.expire succeeds after the first increment
RateLimitExpire(h) ==
  /\ prEvent[h].stage = "rate_expire"
  /\ rateStore' = RedisExpire(rateStore, KeyOf(PRPair), RATE_LIMIT_WINDOW)
  /\ AfterRateLimit(h, prEvent[h], ComputedStatus(HANDLER_MAX_REQUESTS, 1))
  /\ UNCHANGED <<prStarted, comments, auditStore, appLogin, eventBudget, auditVars, procFailedEvents,
                 procTrippedAt, maxRequests, rlCall, rlLast, windowCalls,
                 windowClean, cbVars, retryVars, cacheVars>>

\* checkRateLimit: redis.incr or redis.expire rejects, the status is fail-open
RateLimitFails(h) ==
  /\ prEvent[h].stage \in {"rate_incr", "rate_expire"}
  /\ AfterRateLimit(h, [prEvent[h] EXCEPT !.storeFailed = TRUE],
                    FailOpenStatus(HANDLER_MAX_REQUESTS))
  /\ UNCHANGED <<prStarted, comments, auditStore, appLogin, eventBudget, auditVars, procFailedEvents,
                 procTrippedAt, rlVars, cbVars, retryVars, cacheVars>>

\* the handler after getSummary returned `cached`
AfterCacheLookup(h, ev, cached) ==
  IF cached.kind = "object"
    THEN Continue(h, [Step(ev, "respond") EXCEPT
                        !.stage = "find", !.hit = TRUE,
                        !.body = formatSummaryAsMarkdown(cached.object)])
    ELSE Continue(h, [Step(ev, "fetch") EXCEPT !.stage = "fetch"])

\* getSummary for the head sha (synchronize events): redis.get succeeds
CacheLookup(h) ==
  LET key == SummaryKeyOf(PRTuple(prEvent[h].sha))
  IN /\ prEvent[h].stage = "cache_get"
     /\ AfterCacheLookup(h, prEvent[h], getSummary(summaryStore, key).value)
     /\ UNCHANGED <<prStarted, comments, auditStore, appLogin, eventBudget, auditVars, procFailedEvents,
                    procTrippedAt, rlVars, cbVars, retryVars, cacheVars>>

\* getSummary: redis.get rejects
CacheLookupFails(h) ==
  /\ prEvent[h].stage = "cache_get"
  /\ AfterCacheLookup(h, [prEvent[h] EXCEPT !.storeFailed = TRUE], Null)
  /\ UNCHANGED <<prStarted, comments, auditStore, appLogin, eventBudget, auditVars, procFailedEvents,
                 procTrippedAt, rlVars, cbVars, retryVars, cacheVars>>

\* a GitHubService call of the handler throws (fatal error or retries
\* exhausted): the catch of the handler logs and rethrows
GitHubCallFails(h) ==
  /\ prEvent[h].stage \in {"fetch", "needs_post", "find", "post"}
  /\ Finish(h, prEvent[h], "fatal-error", FALSE)
  /\ UNCHANGED <<prStarted, comments, auditStore, appLogin, eventBudget, auditVars, procFailedEvents,
                 procTrippedAt, rlVars, cbVars, retryVars, cacheVars>>

\* fetchDiff and fetchCommits return: validation, then summarize up to its
\* first await
Fetch(h, pull) ==
  LET ev == prEvent[h]
      validated == Step(ev, "validate")
      check == isCircuitOpen(ev.failures, ev.resetTime, now)
      classified == [Step(validated, "classify") EXCEPT
                        !.failures = check.failures, !.resetTime = check.resetTime]
  IN /\ ev.stage = "fetch"
     /\ IF ~isValidDiffSize(pull.additions, pull.deletions, MAX_DIFF_SIZE_LINES)
          THEN Finish(h, validated, "diff-too-large", TRUE)
        ELSE IF ~hasMeaningfulContent(pull)
          THEN Continue(h, [Step(validated, "respond") EXCEPT
                              !.stage = "needs_post", !.body = formatNeedsInputMessage])
        ELSE IF check.open
          THEN Finish(h, classified, "circuit-open", FALSE)
        ELSE IF hasInsufficientContext(pull)
          THEN Continue(h, [Step(classified, "audit-write") EXCEPT
                              !.stage = "audit", !.result = NeedsInputResult])
        ELSE Continue(h, [classified EXCEPT !.stage = "llm", !.llm = 1])
     /\ UNCHANGED <<prStarted, comments, auditStore, appLogin, eventBudget, auditVars, procFailedEvents,
                    procTrippedAt, rlVars, cbVars, retryVars, cacheVars>>

\* postComment of the needs-input message succeeds
NeedsInputPost(h) ==
  LET ev == prEvent[h]
  IN /\ ev.stage = "needs_post"
     /\ comments' = Append(comments, [login |-> appLogin, body |-> ev.body])
     /\ Finish(h, ev, "insufficient-content", TRUE)
     /\ UNCHANGED <<prStarted, auditStore, appLogin, eventBudget, auditVars, procFailedEvents, procTrippedAt,
                    rlVars, cbVars, retryVars, cacheVars>>

\* llm.invoke resolves with a response that parses to `summary`
LLMSucceeds(h, summary) ==
  LET ev == prEvent[h]
  IN /\ ev.stage = "llm"
     /\ procFailedEvents' = 0
     /\ Continue(h, [Step(ev, "audit-write") EXCEPT
                       !.stage = "audit", !.failures = 0,
                       !.result = [summary |-> summary, tokensUsed |-> 0,
                                   model |-> "gpt-4o"]])
     /\ UNCHANGED <<prStarted, comments, auditStore, appLogin, eventBudget, auditVars, procTrippedAt,
                    rlVars, cbVars, retryVars, cacheVars>>

LLMFailsRespondsAnyway(h, error) ==
  LET ev == prEvent[h]
      rec == recordFailure(ev.failures, ev.resetTime, now)
      failed == [ev EXCEPT !.failures = rec.failures, !.resetTime = rec.resetTime]
  IN /\ ev.stage = "llm"
     /\ IF GivesUp("summarizer", error, ev.attempt)
          THEN /\ Continue(h, [Step(failed, "respond") EXCEPT
                                 !.stage = "find", !.body = formatNeedsInputMessage])
               /\ procFailedEvents' = procFailedEvents + 1
               /\ procTrippedAt' =
                     IF procFailedEvents + 1 >= CIRCUIT_BREAKER_THRESHOLD
                       THEN now ELSE procTrippedAt
          ELSE /\ Continue(h, [failed EXCEPT !.attempt = ev.attempt + 1,
                                             !.llm = ev.llm + 1])
               /\ UNCHANGED <<procFailedEvents, procTrippedAt>>
     /\ UNCHANGED <<prStarted, comments, auditStore, appLogin, eventBudget, auditVars,
                    rlVars, cbVars, retryVars, cacheVars>>

\* llm.invoke rejects with `error` (or its response does not parse): the
\* catch of the operation, then the catch of withRetry; on a retry, the sleep
\* and the next llm.invoke
LLMFails(h, error) ==
  LET ev == prEvent[h]
      rec == recordFailure(ev.failures, ev.resetTime, now)
      failed == [ev EXCEPT !.failures = rec.failures, !.resetTime = rec.resetTime]
  IN /\ ev.stage = "llm"
     /\ IF GivesUp("summarizer", error, ev.attempt)
          THEN /\ Finish(h, failed, "fatal-error", FALSE)
               /\ procFailedEvents' = procFailedEvents + 1
               /\ procTrippedAt' =
                     IF procFailedEvents + 1 >= CIRCUIT_BREAKER_THRESHOLD
                       THEN now ELSE procTrippedAt
          ELSE /\ Continue(h, [failed EXCEPT !.attempt = ev.attempt + 1,
                                             !.llm = ev.llm + 1])
               /\ UNCHANGED <<procFailedEvents, procTrippedAt>>
     /\ UNCHANGED <<prStarted, comments, auditStore, appLogin, eventBudget, auditVars,
                    rlVars, cbVars, retryVars, cacheVars>>

AuditEntry(ev, time) == EntryOf(ev.sha, time)

\* logAudit: redis.setex succeeds under audit:<timestamp>:<suffix>
LogAudit(h, suffix) ==
  LET ev == prEvent[h]
      entry == AuditEntry(ev, now)
      key == getAuditKey(entry.timestamp, suffix)
  IN /\ ev.stage = "audit"
     /\ auditStore' = RedisSetex(auditStore, key, AUDIT_LOG_TTL, JSONStringifyEntry(entry))
     /\ Continue(h, [Step(ev, "respond") EXCEPT
                       !.stage = "find",
                       !.body = IF ev.result.summary["what"] = "[NEEDS_INPUT]"
                                  THEN formatNeedsInputMessage
                                  ELSE formatSummaryAsMarkdown(ev.result.summary)])
     /\ UNCHANGED <<prStarted, comments, appLogin, eventBudget, auditVars, procFailedEvents, procTrippedAt,
                    rlVars, cbVars, retryVars, cacheVars>>

LogAuditFailsThrows(h) ==
  /\ prEvent[h].stage = "audit"
  /\ Finish(h, prEvent[h], "fatal-error", FALSE)
  /\ UNCHANGED <<prStarted, comments, auditStore, appLogin, eventBudget, auditVars,
                 procFailedEvents, procTrippedAt, rlVars, cbVars, retryVars, cacheVars>>

\* logAudit: redis.setex rejects; the catch logs and returns
LogAuditFails(h) ==
  LET ev == prEvent[h]
  IN /\ ev.stage = "audit"
     /\ Continue(h, [Step(ev, "respond") EXCEPT
                       !.stage = "find",
                       !.body = IF ev.result.summary["what"] = "[NEEDS_INPUT]"
                                  THEN formatNeedsInputMessage
                                  ELSE formatSummaryAsMarkdown(ev.result.summary)])
     /\ UNCHANGED <<prStarted, comments, auditStore, appLogin, eventBudget, auditVars, procFailedEvents,
                    procTrippedAt, rlVars, cbVars, retryVars, cacheVars>>

\* findBotComment returns
FindBotComment(h) ==
  /\ prEvent[h].stage = "find"
  /\ Continue(h, [prEvent[h] EXCEPT !.stage = "post",
                                    !.existing = findBotComment(comments, BOT_LOGIN)])
  /\ UNCHANGED <<prStarted, comments, auditStore, appLogin, eventBudget, auditVars, procFailedEvents,
                 procTrippedAt, rlVars, cbVars, retryVars, cacheVars>>

PostOrUpdateCommentThenCache(h) ==
  LET ev == prEvent[h]
  IN /\ ev.stage = "post"
     /\ comments' = IF ev.existing # 0
                      THEN [comments EXCEPT ![ev.existing].body = ev.body]
                      ELSE Append(comments, [login |-> appLogin, body |-> ev.body])
     /\ IF ev.hit THEN Finish(h, ev, "cache-hit", TRUE)
        ELSE Continue(h, [Step(ev, "cache-write") EXCEPT !.stage = "cache_write"])
     /\ UNCHANGED <<prStarted, auditStore, appLogin, eventBudget, auditVars, procFailedEvents, procTrippedAt,
                    rlVars, cbVars, retryVars, cacheVars>>

\* updateComment or postComment succeeds; then the cache-hit path quits, the
\* full path goes on to cacheSummary unless the result is the sentinel
PostOrUpdateComment(h) ==
  LET ev == prEvent[h]
  IN /\ ev.stage = "post"
     /\ comments' = IF ev.existing # 0
                      THEN [comments EXCEPT ![ev.existing].body = ev.body]
                      ELSE Append(comments, [login |-> appLogin, body |-> ev.body])
     /\ IF ev.hit THEN Finish(h, ev, "cache-hit", TRUE)
        ELSE IF ev.result.summary["what"] # "[NEEDS_INPUT]"
          THEN Continue(h, [Step(ev, "cache-write") EXCEPT !.stage = "cache_write"])
        ELSE Finish(h, ev, "summarized", TRUE)
     /\ UNCHANGED <<prStarted, auditStore, appLogin, eventBudget, auditVars, procFailedEvents, procTrippedAt,
                    rlVars, cbVars, retryVars, cacheVars>>

\* the errors a client sees when the response to a request is lost
LostResponseErrors == {Err503, ErrTimeout}

\* postComment: createComment takes effect on the server, the client gets
\* `error` instead of the response; the catch of withRetry, and on a retry the
\* sleep up to the next createComment
PostCommentLost(h, error) ==
  LET ev == prEvent[h]
  IN /\ ev.stage = "needs_post" \/ (ev.stage = "post" /\ ev.existing = 0)
     /\ comments' = Append(comments, [login |-> appLogin, body |-> ev.body])
     /\ IF GivesUp("github", error, ev.postAttempt)
          THEN Finish(h, ev, "fatal-error", FALSE)
          ELSE Continue(h, [ev EXCEPT !.postAttempt = ev.postAttempt + 1,
                                      !.created = ev.created + 1])
     /\ UNCHANGED <<prStarted, auditStore, appLogin, eventBudget, auditVars, procFailedEvents,
                    procTrippedAt, rlVars, cbVars, retryVars, cacheVars>>

\* cacheSummary: redis.setex succeeds; redis.quit
CacheWrite(h) ==
  LET ev == prEvent[h]
      key == SummaryKeyOf(PRTuple(ev.sha))
  IN /\ ev.stage = "cache_write"
     /\ summaryStore' =
           RedisSetex(summaryStore, key, SUMMARY_TTL, JSONStringify(ev.result.summary))
     /\ Finish(h, ev, "summarized", TRUE)
     /\ UNCHANGED <<prStarted, comments, auditStore, appLogin, eventBudget, auditVars, procFailedEvents,
                    procTrippedAt, cacheLast, cacheWritten, rlVars, cbVars, retryVars>>

\* cacheSummary: redis.setex rejects; redis.quit
CacheWriteFails(h) ==
  /\ prEvent[h].stage = "cache_write"
  /\ Finish(h, prEvent[h], "summarized", TRUE)
  /\ UNCHANGED <<prStarted, comments, auditStore, appLogin, eventBudget, auditVars, procFailedEvents,
                 procTrippedAt, rlVars, cbVars, retryVars, cacheVars>>

(***************************************************************************)
(* SummarizerService: parseResponse                                        *)
(***************************************************************************)
\* the ``` of a markdown code block
Fence == [t |-> "fence", v |-> ""]

\* response.content of llm.invoke: summaries as JSON, bare or in a code
\* block, JSON lacking a field or with an empty one, JSON of another shape,
\* text that is not JSON
LLMResponses ==
  {JSONStringify(SummaryPlain),
   <<Fence>> \o JSONStringify(SummaryWithNotes) \o <<Fence>>,
   JSONStringify([what |-> "Test change", why |-> "Test reason"]),
   JSONStringify([why |-> "Test reason", impact |-> "Test impact"]),
   JSONStringify([what |-> "", why |-> "Test reason", impact |-> "Test impact"]),
   <<Punct("{"), Punct("}")>>,
   <<NullLiteral>>,
   <<Garbage>>,
   <<Fence, Garbage, Fence>>,
   <<Garbage>> \o JSONStringify(SummaryPlain)}

\* content.match(/```(?:json)?\s*([\s\S]*?)\s*```/): what lies between the
\* first two fences, or the content itself
ExtractJson(content) ==
  LET fences == {i \in 1..Len(content) : content[i] = Fence}
      first == CHOOSE i \in fences : \A j \in fences : i <= j
      second == CHOOSE i \in fences \ {first} : \A j \in fences \ {first} : i <= j
  IN IF Cardinality(fences) >= 2 THEN SubSeq(content, first + 1, second - 1)
     ELSE content

parseResponseUnchecked(content) ==
  LET parsed == JSONParse(ExtractJson(content))
  IN IF ~parsed.ok \/ parsed.kind = "null"
       THEN [ok |-> FALSE, error |-> ParseError]
       ELSE [ok |-> TRUE, summary |-> parsed.value]

\* SummarizerService.parseResponse: the PRSummary, or the error its catch
\* throws (a SyntaxError of JSON.parse, the TypeError of reading a property
\* of null and the missing-fields error all end there); the property values
\* of the responses are strings, of which the empty one is falsy
parseResponse(content) ==
  LET parsed == JSONParse(ExtractJson(content))
  IN IF ~parsed.ok \/ parsed.kind = "null"
       THEN [ok |-> FALSE, error |-> ParseError]
     ELSE IF \E k \in {"what", "why", "impact"} : k \notin DOMAIN parsed.value \/ parsed.value[k] = ""
       THEN [ok |-> FALSE, error |-> ParseError]
     ELSE [ok |-> TRUE, summary |-> parsed.value]

\* llm.invoke resolves with `content`: parseResponse, then the rest of the
\* try or the two catch blocks
AttemptResponds(s, content) ==
  LET parsed == parseResponse(content)
  IN IF parsed.ok THEN AttemptSucceeds(s)
     ELSE \E jitter \in Jitters : AttemptFails(s, parsed.error, jitter)

(***************************************************************************)
(* Specifications                                                          *)
(***************************************************************************)
\* no withRetry call in progress
NoRetry == [stage |-> "idle"]

InitRLVars ==
  /\ rateStore = << >>
  /\ rlCall = [c \in Callers |-> NoCall]
  /\ rlLast = NoResult
  /\ windowCalls = [q \in Pairs |-> 0]
  /\ windowClean = [q \in Pairs |-> TRUE]

\* a SummarizerService after its constructor
InitCBVars(callers) ==
  /\ now = 0
  /\ circuitBreakerFailures = 0
  /\ circuitBreakerResetTime = 0
  /\ sumCall = [s \in callers |-> NoSummarize]
  /\ sumLast = [outcome |-> "none"]
  /\ callsStarted = 0
  /\ failStreak = 0
  /\ failedCallsInRow = 0
  /\ trialCaller = "none"
  /\ llmInvocations = 0

\* a process that has handled no event yet; the repository's counter may
\* hold the count of earlier events of the window
InitPRVars ==
  /\ prEvent = [h \in OneHandler |-> IdleEvent]
  /\ prLast = [outcome |-> "none"]
  /\ prStarted = 0
  /\ comments = << >>
  /\ auditStore = << >>
  /\ auditCall = NoCall
  /\ auditLast = NoResult
  /\ auditLogged = {}
  /\ auditWrites = 0
  /\ connections = 0
  /\ procFailedEvents = 0
  /\ procTrippedAt = 0

\* an empty summary cache, no call made yet
InitCacheVars ==
  /\ summaryStore = << >>
  /\ cacheLast = [op |-> "none"]
  /\ cacheWritten = [t \in CacheTuples |-> NeverWritten]

InitRL ==
  /\ maxRequests \in 1..MaxLimit
  /\ InitRLVars
  /\ InitCBVars(OneSummarizer)
  /\ retry = NoRetry
  /\ InitCacheVars
  /\ InitPRVars
  /\ eventBudget = MaxEvents
  /\ appLogin = BOT_LOGIN

NextRL ==
  \/ \E c \in Callers, q \in Pairs : CheckRateLimitIncr(c, q)
  \/ \E c \in Callers, q \in Pairs : CheckRateLimitIncrFails(c, q)
  \/ \E c \in Callers : CheckRateLimitExpire(c)
  \/ \E c \in Callers : CheckRateLimitExpireFails(c)
  \/ \E c \in Callers, q \in Pairs : ResetRateLimit(c, q)
  \/ \E c \in Callers, q \in Pairs : ResetRateLimitFails(c, q)
  \/ \E q \in Pairs : KeyExpires(q)

SpecRL == InitRL /\ [][NextRL]_vars

InitCB ==
  /\ maxRequests = 1
  /\ InitRLVars
  /\ InitCBVars(OneSummarizer)
  /\ retry = NoRetry
  /\ InitCacheVars
  /\ InitPRVars
  /\ eventBudget = MaxEvents
  /\ appLogin = BOT_LOGIN

NextCB ==
  \/ \E s \in DOMAIN sumCall, context \in Contexts : StartSummarize(s, context)
  \/ \E s \in DOMAIN sumCall : AttemptSucceeds(s)
  \/ \E s \in DOMAIN sumCall, e \in LLMErrors \cup {ParseError}, j \in Jitters :
        AttemptFails(s, e, j)
  \/ \E s \in DOMAIN sumCall : WakeAndRetry(s)
  \/ \E d \in TickSteps : Tick(d)

\* one caller, its summarize calls one after another
SpecCB == InitCB /\ [][NextCB]_vars

InitCBConcurrent ==
  /\ maxRequests = 1
  /\ InitRLVars
  /\ InitCBVars(Summarizers)
  /\ retry = NoRetry
  /\ InitCacheVars
  /\ InitPRVars
  /\ eventBudget = MaxEvents
  /\ appLogin = BOT_LOGIN

\* concurrent summarize calls on the instance
SpecCBConcurrent == InitCBConcurrent /\ [][NextCB]_vars

\* the LLM is down: llm.invoke rejects every time with the status-500 error
\* (jest.fn().mockRejectedValue(error) of the circuit-breaker test)
NextCBOutage ==
  \/ \E s \in DOMAIN sumCall, context \in Contexts : StartSummarize(s, context)
  \/ \E s \in DOMAIN sumCall, j \in Jitters : AttemptFails(s, Err500, j)
  \/ \E s \in DOMAIN sumCall : WakeAndRetry(s)
  \/ \E d \in TickSteps : Tick(d)

SpecCBOutage == InitCB /\ [][NextCBOutage]_vars

\* the LLM answers every invocation, with responses of any shape
NextCBResponses ==
  \/ \E s \in DOMAIN sumCall, context \in Contexts : StartSummarize(s, context)
  \/ \E s \in DOMAIN sumCall, content \in LLMResponses : AttemptResponds(s, content)
  \/ \E d \in TickSteps : Tick(d)

SpecCBResponses == InitCB /\ [][NextCBResponses]_vars

InitRetry ==
  /\ maxRequests = 1
  /\ InitRLVars
  /\ InitCBVars(OneSummarizer)
  /\ \E service \in Services : retry = WithRetryInit(service)
  /\ InitCacheVars
  /\ InitPRVars
  /\ eventBudget = MaxEvents
  /\ appLogin = BOT_LOGIN

NextRetry ==
  \/ \E value \in OperationValues : OperationSucceeds(value)
  \/ \E shape \in ErrorShapes, j \in Jitters : OperationFails(shape, j)
  \/ SleepOver

\* one withRetry call of either service, around an operation that fails or
\* succeeds in any way
SpecRetry == InitRetry /\ [][NextRetry]_vars

\* operation() and sleep() settle
SpecRetryFair == SpecRetry /\ WF_vars(NextRetry)

InitCache ==
  /\ maxRequests = 1
  /\ InitRLVars
  /\ InitCBVars(OneSummarizer)
  /\ retry = NoRetry
  /\ InitCacheVars
  /\ InitPRVars
  /\ eventBudget = MaxEvents
  /\ appLogin = BOT_LOGIN

NextCache ==
  \/ \E t \in CacheTuples, summary \in Summaries : CacheSummary(t, summary)
  \/ \E t \in CacheTuples, summary \in Summaries : CacheSummaryFails(t, summary)
  \/ \E t \in CacheTuples : GetSummary(t)
  \/ \E t \in CacheTuples : GetSummaryFails(t)
  \/ \E t \in CacheTuples : SummaryExpires(t)
  \/ \E t \in CacheTuples, raw \in ForeignValues : ForeignWrite(t, raw)

\* cacheSummary and getSummary calls one after another on a store that also
\* expires keys and may hold values the service did not write
SpecCache == InitCache /\ [][NextCache]_vars

InitPR ==
  /\ maxRequests = HANDLER_MAX_REQUESTS
  /\ \E prior \in PriorCounts :
        rateStore = IF prior = 0 THEN << >>
                    ELSE [k \in {KeyOf(PRPair)} |->
                            [value |-> prior, ttl |-> RATE_LIMIT_WINDOW]]
  /\ rlCall = [c \in Callers |-> NoCall]
  /\ rlLast = NoResult
  /\ windowCalls = [q \in Pairs |-> 0]
  /\ windowClean = [q \in Pairs |-> TRUE]
  /\ InitCBVars(OneSummarizer)
  /\ retry = NoRetry
  /\ InitCacheVars
  /\ InitPRVars
  /\ eventBudget = MaxEvents
  /\ appLogin \in AppLogins

\* no invocation in flight
BetweenEvents == \A h \in DOMAIN prEvent : prEvent[h] = IdleEvent

NextPR ==
  \/ \E h \in DOMAIN prEvent, action \in PRActions, sha \in Shas, labels \in LabelSets :
        ReceiveEvent(h, action, sha, labels)
  \/ \E h \in DOMAIN prEvent : RateLimitIncr(h)
  \/ \E h \in DOMAIN prEvent : RateLimitExpire(h)
  \/ \E h \in DOMAIN prEvent : RateLimitFails(h)
  \/ \E h \in DOMAIN prEvent : CacheLookup(h)
  \/ \E h \in DOMAIN prEvent : CacheLookupFails(h)
  \/ \E h \in DOMAIN prEvent : GitHubCallFails(h)
  \/ \E h \in DOMAIN prEvent, pull \in Pulls : Fetch(h, pull)
  \/ \E h \in DOMAIN prEvent : NeedsInputPost(h)
  \/ \E h \in DOMAIN prEvent, summary \in Summaries : LLMSucceeds(h, summary)
  \/ \E h \in DOMAIN prEvent, e \in LLMErrors \cup {ParseError} : LLMFails(h, e)
  \/ \E h \in DOMAIN prEvent, suffix \in AuditSuffixes : LogAudit(h, suffix)
  \/ \E h \in DOMAIN prEvent : LogAuditFails(h)
  \/ \E h \in DOMAIN prEvent : FindBotComment(h)
  \/ \E h \in DOMAIN prEvent : PostOrUpdateComment(h)
  \/ \E h \in DOMAIN prEvent : CacheWrite(h)
  \/ \E h \in DOMAIN prEvent : CacheWriteFails(h)
  \/ \E sha \in Shas : SummaryExpires(PRTuple(sha))

\* the events of one pull request, handled one after another by one process
SpecPR == InitPR /\ [][NextPR]_vars

InitAudit ==
  /\ maxRequests = 1
  /\ InitRLVars
  /\ InitCBVars(OneSummarizer)
  /\ retry = NoRetry
  /\ InitCacheVars
  /\ InitPRVars
  /\ eventBudget = MaxEvents
  /\ appLogin = BOT_LOGIN

NextAudit ==
  \/ \E correlationId \in Shas, suffix \in AuditSuffixes :
        LogAuditCall(correlationId, suffix)
  \/ \E correlationId \in Shas, suffix \in AuditSuffixes :
        LogAuditCallFails(correlationId, suffix)
  \/ \E startTime \in QueryTimes, endTime \in QueryTimes, keys \in KeyLists(auditStore) :
        GetAuditLogsKeys(startTime, endTime, keys)
  \/ GetAuditLogsScan
  \/ \E startTime \in QueryTimes, endTime \in QueryTimes :
        GetAuditLogsFails(startTime, endTime)
  \/ HealthCheck
  \/ HealthCheckFails
  \/ \E key \in DOMAIN auditStore : AuditExpires(key)
  \/ \E d \in AuditTicks : auditCall = NoCall /\ Tick(d)

\* logAudit, getAuditLogs and healthCheck calls one after another on a store
\* that expires keys
SpecAudit == InitAudit /\ [][NextAudit]_vars

InitPROutage ==
  /\ maxRequests = HANDLER_MAX_REQUESTS
  /\ InitRLVars
  /\ InitCBVars(OneSummarizer)
  /\ retry = NoRetry
  /\ InitCacheVars
  /\ InitPRVars
  /\ eventBudget = MaxOutageEvents
  /\ appLogin = BOT_LOGIN

\* the LLM is down: the pull request is fine, the stores and GitHub answer,
\* llm.invoke rejects every time with the status-500 error
NextPROutage ==
  \/ \E h \in DOMAIN prEvent, action \in PRActions, sha \in Shas, labels \in LabelSets :
        ReceiveEvent(h, action, sha, labels)
  \/ \E h \in DOMAIN prEvent : RateLimitIncr(h)
  \/ \E h \in DOMAIN prEvent : RateLimitExpire(h)
  \/ \E h \in DOMAIN prEvent : CacheLookup(h)
  \/ \E h \in DOMAIN prEvent : Fetch(h, PullOk)
  \/ \E h \in DOMAIN prEvent : LLMFails(h, Err500)
  \/ \E d \in TickSteps : BetweenEvents /\ Tick(d)

\* the events of one pull request handled by one process during an outage of
\* the LLM
SpecPROutage == InitPROutage /\ [][NextPROutage]_vars

InitPRLossy ==
  /\ maxRequests = HANDLER_MAX_REQUESTS
  /\ InitRLVars
  /\ InitCBVars(OneSummarizer)
  /\ retry = NoRetry
  /\ InitCacheVars
  /\ InitPRVars
  /\ eventBudget = MaxLossyEvents
  /\ appLogin \in AppLogins

\* the stores and the LLM answer; GitHub answers, but the response to a
\* createComment request may be lost after the request took effect
NextPRLossy ==
  \/ \E h \in DOMAIN prEvent, action \in PRActions, sha \in Shas, labels \in LabelSets :
        ReceiveEvent(h, action, sha, labels)
  \/ \E h \in DOMAIN prEvent : RateLimitIncr(h)
  \/ \E h \in DOMAIN prEvent : RateLimitExpire(h)
  \/ \E h \in DOMAIN prEvent : CacheLookup(h)
  \/ \E h \in DOMAIN prEvent, pull \in {PullOk, PullThin} : Fetch(h, pull)
  \/ \E h \in DOMAIN prEvent : NeedsInputPost(h)
  \/ \E h \in DOMAIN prEvent : LLMSucceeds(h, SummaryPlain)
  \/ \E h \in DOMAIN prEvent, suffix \in AuditSuffixes : LogAudit(h, suffix)
  \/ \E h \in DOMAIN prEvent : FindBotComment(h)
  \/ \E h \in DOMAIN prEvent : PostOrUpdateComment(h)
  \/ \E h \in DOMAIN prEvent, e \in LostResponseErrors : PostCommentLost(h, e)
  \/ \E h \in DOMAIN prEvent : CacheWrite(h)

\* the events of one pull request handled by one process over a connection
\* to GitHub that loses responses
SpecPRLossy == InitPRLossy /\ [][NextPRLossy]_vars

InitPRDiff ==
  /\ maxRequests = HANDLER_MAX_REQUESTS
  /\ InitRLVars
  /\ InitCBVars(OneSummarizer)
  /\ retry = NoRetry
  /\ InitCacheVars
  /\ InitPRVars
  /\ eventBudget = MaxDiffEvents
  /\ appLogin \in AppLogins

\* everything answers; the pull requests are of the sizes around the limits
NextPRDiff ==
  \/ \E h \in DOMAIN prEvent, action \in PRActions, sha \in Shas, labels \in LabelSets :
        ReceiveEvent(h, action, sha, labels)
  \/ \E h \in DOMAIN prEvent : RateLimitIncr(h)
  \/ \E h \in DOMAIN prEvent : RateLimitExpire(h)
  \/ \E h \in DOMAIN prEvent : CacheLookup(h)
  \/ \E h \in DOMAIN prEvent, pull \in DiffPulls : Fetch(h, pull)
  \/ \E h \in DOMAIN prEvent, summary \in Summaries : LLMSucceeds(h, summary)
  \/ \E h \in DOMAIN prEvent, suffix \in AuditSuffixes : LogAudit(h, suffix)
  \/ \E h \in DOMAIN prEvent : FindBotComment(h)
  \/ \E h \in DOMAIN prEvent : PostOrUpdateComment(h)
  \/ \E h \in DOMAIN prEvent : CacheWrite(h)

\* the events of one pull request whose size varies around the limits
SpecPRDiff == InitPRDiff /\ [][NextPRDiff]_vars

\* invocations in flight at once: app.on does not await the handler
TwoHandlers == {"h1", "h2"}

InitPRConcurrent ==
  /\ maxRequests = HANDLER_MAX_REQUESTS
  /\ InitRLVars
  /\ InitCBVars(OneSummarizer)
  /\ retry = NoRetry
  /\ InitCacheVars
  /\ prEvent = [h \in TwoHandlers |-> IdleEvent]
  /\ prLast = [outcome |-> "none"]
  /\ prStarted = 0
  /\ comments = << >>
  /\ auditStore = << >>
  /\ auditCall = NoCall
  /\ auditLast = NoResult
  /\ auditLogged = {}
  /\ auditWrites = 0
  /\ connections = 0
  /\ procFailedEvents = 0
  /\ procTrippedAt = 0
  /\ eventBudget = MaxConcurrentEvents
  /\ appLogin = BOT_LOGIN

\* everything answers; the events of the pull request are handled as they
\* arrive, their awaits interleaved
NextPRConcurrent ==
  \/ \E h \in DOMAIN prEvent, action \in PRActions, sha \in Shas, labels \in LabelSets :
        ReceiveEvent(h, action, sha, labels)
  \/ \E h \in DOMAIN prEvent : RateLimitIncr(h)
  \/ \E h \in DOMAIN prEvent : RateLimitExpire(h)
  \/ \E h \in DOMAIN prEvent : CacheLookup(h)
  \/ \E h \in DOMAIN prEvent : Fetch(h, PullOk)
  \/ \E h \in DOMAIN prEvent : LLMSucceeds(h, SummaryPlain)
  \/ \E h \in DOMAIN prEvent, suffix \in AuditSuffixes : LogAudit(h, suffix)
  \/ \E h \in DOMAIN prEvent : FindBotComment(h)
  \/ \E h \in DOMAIN prEvent : PostOrUpdateComment(h)
  \/ \E h \in DOMAIN prEvent : CacheWrite(h)

\* the events of one pull request handled concurrently by one process
SpecPRConcurrent == InitPRConcurrent /\ [][NextPRConcurrent]_vars

(***************************************************************************)
(* Rate limiter: properties                                                *)
(***************************************************************************)
Min(a, b) == IF a <= b THEN a ELSE b

Returned == rlLast.op = "check"

\* the counter of a pair as the store holds it (0: no counter)
Counter(pair) ==
  IF KeyOf(pair) \in DOMAIN rateStore
    THEN rateStore[KeyOf(pair)]
    ELSE [value |-> 0, ttl |-> NoTTL]

AwaitingExpire(pair) ==
  \E c \in Callers : rlCall[c].stage = "expire" /\ rlCall[c].pair = pair

\* C1: with the store reachable, within one window the n-th checkRateLimit
\* call on a pair returns isLimited = FALSE for n <= limit, and
\* isLimited = TRUE with remaining = 0 for every n > limit.
C1_LimitAfterThreshold ==
  (Returned /\ rlLast.clean) =>
     /\ rlLast.status.isLimited <=> (rlLast.ordinal > rlLast.limit)
     /\ rlLast.status.isLimited => rlLast.status.remaining = 0

C1_Witness ==
  /\ Returned /\ rlLast.clean
  /\ rlLast.ordinal = rlLast.limit + 1
  /\ rlLast.status.isLimited
  /\ rlLast.status.remaining = 0

\* C2 (as stated): every returned status has isLimited <=> remaining = 0.
C2_LimitedIffNoneRemaining ==
  Returned => (rlLast.status.isLimited <=> (rlLast.status.remaining = 0))

\* C2 (amended): every returned status has isLimited => remaining = 0; a
\* status computed from a post-increment count has
\* remaining = max(0, limit - count) and isLimited <=> count > limit, so at
\* count = limit it has remaining = 0 and isLimited = FALSE.
C2_LimitedImpliesNoneRemaining ==
  Returned =>
     /\ rlLast.status.isLimited => rlLast.status.remaining = 0
     /\ ~rlLast.failed =>
          /\ rlLast.status.remaining + Min(rlLast.current, rlLast.limit) = rlLast.limit
          /\ rlLast.status.isLimited <=> (rlLast.current > rlLast.limit)
          /\ (rlLast.status.remaining = 0) <=> (rlLast.current >= rlLast.limit)

C2_Witness ==
  /\ Returned /\ ~rlLast.failed
  /\ rlLast.current = rlLast.limit
  /\ rlLast.status.remaining = 0
  /\ ~rlLast.status.isLimited

\* C3: a rate-limit counter left in the store by returned checkRateLimit
\* calls carries an expiry, whatever store commands failed.
C3_CounterCarriesExpiry ==
  \A q \in Pairs :
     (Counter(q).value > 0 /\ ~AwaitingExpire(q)) => Counter(q).ttl # NoTTL

\* C4: a checkRateLimit call in which a store command failed returns
\* normally with isLimited = FALSE and remaining = limit.
C4_FailOpen ==
  (Returned /\ rlLast.failed) =>
     /\ ~rlLast.threw
     /\ ~rlLast.status.isLimited
     /\ rlLast.status.remaining = rlLast.limit
     /\ rlLast.status.limit = rlLast.limit

C4_Witness ==
  /\ Returned /\ rlLast.failed
  /\ rlLast.current = 1
  /\ ~rlLast.status.isLimited
  /\ rlLast.status.remaining = rlLast.limit

\* a step of a checkRateLimit or resetRateLimit call made on the pair
ActsOn(pair) ==
  \E c \in Callers :
     \/ CheckRateLimitIncr(c, pair)
     \/ CheckRateLimitIncrFails(c, pair)
     \/ /\ rlCall[c].stage = "expire"
        /\ rlCall[c].pair = pair
        /\ CheckRateLimitExpire(c) \/ CheckRateLimitExpireFails(c)
     \/ ResetRateLimit(c, pair)
     \/ ResetRateLimitFails(c, pair)

\* C5: a step of a checkRateLimit or resetRateLimit call on one pair leaves
\* the counter of every other pair unchanged.
C5_IsolatedPerPair ==
  [][\A q \in Pairs : ActsOn(q) =>
        \A other \in Pairs \ {q} : Counter(other)' = Counter(other)]_vars

\* one pair's budget is exhausted while another pair's counter is at 1
C5_Witness ==
  \E q \in Pairs, other \in Pairs :
     /\ q # other
     /\ Returned /\ rlLast.pair = q /\ rlLast.status.isLimited
     /\ Counter(other).value = 1

(***************************************************************************)
(* Circuit breaker: properties                                             *)
(***************************************************************************)
\* Open: consecutiveFailures >= threshold and now < openUntil
BreakerOpen ==
  /\ circuitBreakerFailures >= CIRCUIT_BREAKER_THRESHOLD
  /\ now < circuitBreakerResetTime

\* the step calls llm.invoke on behalf of caller s
LLMInvokedBy(s) == sumCall'[s].stage = "invoking" /\ sumCall'[s] # sumCall[s]

\* C6: the failure counter equals the number of failed attempts since the
\* last successful attempt or cool-down reset (a success puts it at 0); the
\* breaker is Open only when that number has reached the threshold, and it
\* is Open right after the failure that brings the number to the threshold.
C6_OpensAtThreshold ==
  [][/\ circuitBreakerFailures' = failStreak'
     /\ BreakerOpen' => failStreak' >= CIRCUIT_BREAKER_THRESHOLD
     /\ (failStreak' = CIRCUIT_BREAKER_THRESHOLD /\ failStreak' # failStreak)
           => BreakerOpen'
     /\ (\E s \in DOMAIN sumCall : AttemptSucceeds(s)) => circuitBreakerFailures' = 0]_vars

C6_Witness ==
  /\ BreakerOpen
  /\ failStreak = CIRCUIT_BREAKER_THRESHOLD
  /\ sumLast.outcome = "error"

\* C7: a summarize call started after 5 consecutive failed summarize calls
\* and before the cool-down has elapsed is rejected with the circuit-open
\* error and does not invoke the LLM.
C7_SixthCallRejected ==
  [][\A s \in DOMAIN sumCall, context \in Contexts :
        (/\ StartSummarize(s, context)
         /\ failedCallsInRow >= CIRCUIT_BREAKER_THRESHOLD
         /\ now < circuitBreakerResetTime)
        => /\ sumLast'.outcome = "circuit_open"
           /\ sumCall'[s] = NoSummarize
           /\ ~LLMInvokedBy(s)]_vars

C7_Witness ==
  /\ sumLast.outcome = "circuit_open"
  /\ failedCallsInRow = CIRCUIT_BREAKER_THRESHOLD + 1
  /\ callsStarted = CIRCUIT_BREAKER_THRESHOLD + 1
  /\ circuitBreakerFailures = CIRCUIT_BREAKER_THRESHOLD

\* C8: while the breaker is Open no step invokes the LLM.
C8_NoInvocationWhileOpen ==
  [][\A s \in DOMAIN sumCall : LLMInvokedBy(s) => ~BreakerOpen]_vars

\* C9: once Open, the breaker stays Open at every time before openUntil.
C9_OpenUntilResetTime ==
  [][(BreakerOpen /\ now' < circuitBreakerResetTime) => BreakerOpen']_vars

\* C10: right after a successful LLM attempt consecutiveFailures and
\* openUntilEpochMs are both 0.
C10_SuccessClearsBoth ==
  [][(\E s \in DOMAIN sumCall : AttemptSucceeds(s))
        => /\ circuitBreakerFailures' = 0
           /\ circuitBreakerResetTime' = 0]_vars

\* the step ends the summarize call of caller s with a thrown LLM error
CallFails(s) ==
  /\ sumCall[s].stage = "invoking"
  /\ sumCall'[s] = NoSummarize
  /\ sumLast'.outcome = "error"

\* C11: once the cool-down has elapsed on a tripped breaker exactly one trial
\* call is let through: no other call invokes the LLM while the trial is in
\* flight; a trial that fails leaves the breaker Open, a trial that succeeds
\* leaves it Closed with the counter at 0.
C11_HalfOpenTrial ==
  [][\A s \in DOMAIN sumCall :
        /\ (trialCaller = s /\ CallFails(s)) => BreakerOpen'
        /\ (trialCaller = s /\ AttemptSucceeds(s))
              => (circuitBreakerFailures' = 0 /\ ~BreakerOpen')
        /\ (trialCaller \notin {"none", s}) => ~LLMInvokedBy(s)]_vars

\* C13: the breaker counts one failure per failed summarize call. While
\* every LLM attempt fails with a retriable error, a summarize call that
\* throws the LLM error has made all 3 attempts, and a call is rejected with
\* 'Circuit breaker is open' only as the 6th call or later, after the 5
\* calls before it made 15 LLM invocations.
C13_OneFailurePerCall ==
  (failedCallsInRow = callsStarted) =>
     /\ (sumLast.outcome = "error" /\ callsStarted <= CIRCUIT_BREAKER_THRESHOLD)
           => llmInvocations = (MAX_RETRIES + 1) * callsStarted
     /\ (sumLast.outcome = "circuit_open")
           => /\ callsStarted >= CIRCUIT_BREAKER_THRESHOLD + 1
              /\ llmInvocations >= (MAX_RETRIES + 1) * CIRCUIT_BREAKER_THRESHOLD

(***************************************************************************)
(* withRetry: properties                                                   *)
(***************************************************************************)
\* positions in `raised` of the errors the service's classifier calls fatal
FatalAt(service, raised) ==
  {i \in 1..Len(raised) : ~Retriable(service, raised[i])}

RetryInvocationCount ==
  LET max == MaxRetriesOf(retry.service)
      k == Len(retry.raised)
      fatalAt == FatalAt(retry.service, retry.raised)
  IN /\ retry.invocations <= max + 1
     /\ (retry.stage = "done" /\ retry.outcome.kind = "return")
          => /\ fatalAt = {}
             /\ k <= max
             /\ retry.invocations = k + 1
             /\ retry.outcome.value = retry.outcome.resolved
     /\ (retry.stage = "done" /\ retry.outcome.kind = "throw")
          => /\ retry.invocations = k
             /\ IF fatalAt # {} THEN fatalAt = {k} ELSE k = max + 1
     /\ (k >= 1 /\ 1 \in fatalAt)
          => (retry.stage = "done" /\ retry.invocations = 1)

\* C14: a withRetry call of either service (MAX_RETRIES = 2) ends, and the
\* operation is invoked at most MAX_RETRIES + 1 times: no invocation follows
\* a failure classified fatal (a fatal first failure: exactly 1 invocation);
\* k <= MAX_RETRIES retriable failures followed by a success give k + 1
\* invocations and the success value is returned; retriable failures on
\* every attempt give MAX_RETRIES + 1 invocations and then a throw.
C14_RetryBounded == [](RetryInvocationCount) /\ <>(retry.stage = "done")

C14_Witness ==
  /\ retry.service = "github"
  /\ retry.stage = "done"
  /\ retry.outcome.kind = "return"
  /\ Len(retry.raised) = GITHUB_MAX_RETRIES
  /\ retry.invocations = GITHUB_MAX_RETRIES + 1

\* C15: when withRetry gives up, the error it throws is the error object
\* raised by the most recent invocation of the operation.
C15_ThrowsLatestError ==
  (retry.stage = "done" /\ retry.outcome.kind = "throw")
     => /\ retry.outcome.error = retry.raised[Len(retry.raised)]
        /\ retry.outcome.error.raisedBy = retry.invocations

C15_Witness ==
  /\ retry.stage = "done"
  /\ retry.outcome.kind = "throw"
  /\ retry.invocations = MAX_RETRIES + 1
  /\ retry.raised[1].status = 429
  /\ retry.outcome.error.status = 503

\* C16: GitHubService.isRetriableError and SummarizerService.isRetriableError
\* return the same result for every error an operation raises, and the
\* codes ECONNRESET and ENOTFOUND are retriable in both.
C16_SameClassification ==
  retry.stage # "idle" =>
    \A i \in 1..Len(retry.raised) :
       LET error == retry.raised[i]
       IN /\ gitHubIsRetriableError(error) = isRetriableError(error)
          /\ error.code \in {"ECONNRESET", "ENOTFOUND"}
               => (gitHubIsRetriableError(error) /\ isRetriableError(error))

(***************************************************************************)
(* Summary cache: properties                                               *)
(***************************************************************************)
\* the value getSummary returned has the properties of `summary`, with the
\* same values, and no others
SameSummary(value, summary) ==
  /\ value.kind = "object"
  /\ DOMAIN value.object = DOMAIN summary
  /\ \A k \in DOMAIN summary : value.object[k] = summary[k]

\* C17: with the store reachable, getSummary on a 4-tuple returns a value
\* equal to the summary that cacheSummary stored last under that tuple and
\* that has not expired, and null on a tuple under which nothing was ever
\* written.
C17_RoundTrip ==
  (cacheLast.op = "getSummary" /\ ~cacheLast.failed) =>
     /\ cacheLast.before.status = "written"
          => SameSummary(cacheLast.value, cacheLast.before.value)
     /\ cacheLast.before.status = "never" => cacheLast.value = Null

C17_Witness ==
  /\ cacheLast.op = "getSummary" /\ ~cacheLast.failed
  /\ cacheLast.before.status = "written"
  /\ cacheLast.before.value = SummaryWithNotes
  /\ cacheLast.value.kind = "object"
  /\ cacheLast.value.object["notes"] = "Database migration required"
  /\ \E u \in CacheTuples : u # cacheLast.tuple /\ cacheWritten[u].status = "never"

\* the key holds text that JSON.parse rejects
Malformed(got) == ~got.null /\ ~JSONParse(got.value).ok

\* C18: getSummary never throws, and returns null when redis.get fails or
\* the stored value is not parseable as JSON; cacheSummary never throws,
\* and when redis.setex fails it leaves the store unchanged.
C18_CacheNeverFails ==
  [][\A t \in CacheTuples :
        /\ GetSummaryFails(t) => (cacheLast'.value = Null /\ ~cacheLast'.threw)
        /\ GetSummary(t) => ~cacheLast'.threw
        /\ (GetSummary(t) /\ Malformed(RedisGet(summaryStore, SummaryKeyOf(t))))
             => cacheLast'.value = Null
        /\ \A summary \in Summaries :
             /\ CacheSummary(t, summary) => ~cacheLast'.threw
             /\ CacheSummaryFails(t, summary)
                  => (~cacheLast'.threw /\ summaryStore' = summaryStore)]_vars

C18_Witness ==
  /\ cacheLast.op = "getSummary" /\ ~cacheLast.failed
  /\ Malformed(cacheLast.raw)
  /\ Len(cacheLast.raw.value) = 7
  /\ cacheLast.value = Null

(***************************************************************************)
(* handlePullRequestEvent: properties                                      *)
(***************************************************************************)
\* the summarize call of the event of h invokes the LLM for the first time
FirstInvocation(h) == prEvent[h].stage = "fetch" /\ prEvent'[h].stage = "llm"

\* the summarize calls of the last CIRCUIT_BREAKER_THRESHOLD events of the
\* process, or more, failed and the cool-down of the last failure runs
ProcessBreakerTripped ==
  /\ procFailedEvents >= CIRCUIT_BREAKER_THRESHOLD
  /\ now < procTrippedAt + CIRCUIT_BREAKER_COOLDOWN

\* C12: once the classification step has failed in consecutive events of a
\* process often enough for the failure counter to reach the threshold, an
\* event the process handles within the cool-down does not invoke the LLM
C12_BreakerSurvivesEvents ==
  [][\A h \in DOMAIN prEvent : ProcessBreakerTripped => ~FirstInvocation(h)]_vars

\* C19: a step of the system leaves the value stored under a summary key as
\* it is for as long as the key is there
C19_EntryImmutable ==
  [][\A key \in DOMAIN summaryStore \cap DOMAIN summaryStore' :
        summaryStore'[key].value = summaryStore[key].value]_vars

\* the event of h has passed the rate-limit check with the store answering,
\* and the store holds a summary for its (owner, repo, number, head sha)
CachedFor(h) ==
  /\ prEvent[h].stage \notin {"idle", "rate_incr", "rate_expire"}
  /\ ~prEvent[h].storeFailed
  /\ getSummary(summaryStore, SummaryKeyOf(PRTuple(prEvent[h].sha))).value.kind = "object"

\* C20: an event that has passed the rate-limit check while the reachable
\* store holds a summary for its head sha does not invoke the LLM
C20_CachedEventSkipsLLM ==
  [][\A h \in DOMAIN prEvent : CachedFor(h) => ~FirstInvocation(h)]_vars

(***************************************************************************)
(* Audit log: properties                                                   *)
(***************************************************************************)
\* the entry logAudit wrote under a key of the store
StoredEntry(key) ==
  CHOOSE entry \in {r.entry : r \in {q \in auditLogged : q.key = key}} :
    JSONStringifyEntry(entry) = auditStore[key].value

\* the keys of the store whose entry lies in the closed range
KeysInRange(startTime, endTime) ==
  {key \in DOMAIN auditStore :
     /\ startTime <= StoredEntry(key).timestamp
     /\ StoredEntry(key).timestamp <= endTime}

\* a getAuditLogs call returns, the store having answered
AuditQueryReturns ==
  /\ auditCall # NoCall
  /\ auditCall' = NoCall
  /\ ~auditLast'.failed

\* C21: a getAuditLogs query that the store answers returns, latest first,
\* one entry for every stored key whose timestamp lies in [startTime, endTime]
\* and nothing else
C21_QueryExactAndSorted ==
  [][AuditQueryReturns =>
       LET logs == auditLast'.logs
           keys == KeysInRange(auditCall.startTime, auditCall.endTime)
       IN /\ ~auditLast'.threw
          /\ Len(logs) = Cardinality(keys)
          /\ {logs[i] : i \in 1..Len(logs)} = {StoredEntry(key) : key \in keys}
          /\ \A i, j \in 1..Len(logs) :
                i < j => logs[i]["timestamp"] >= logs[j]["timestamp"]]_vars

\* a query returned the one entry on the bound of its range and left out an
\* entry of the store
C21_Witness ==
  /\ auditLast.op = "getAuditLogs"
  /\ ~auditLast.failed
  /\ Len(auditLast.logs) = 1
  /\ auditLast.logs[1]["timestamp"] = auditLast.startTime
  /\ auditLast.startTime < auditLast.endTime
  /\ Cardinality(DOMAIN auditStore) = 2
  /\ Cardinality(auditLogged) = 2

(***************************************************************************)
(* handlePullRequestEvent: properties of the steps                         *)
(***************************************************************************)
\* C22: whatever the store answers at the audit step, logAudit returns and
\* the event goes on to look for its comment and post: the handler neither
\* returns nor throws at that step
C22_AuditBestEffort ==
  [][\A h \in DOMAIN prEvent :
       (prEvent[h].stage = "audit" /\ prEvent'[h] # prEvent[h]) =>
          /\ prEvent'[h].stage = "find"
          /\ prEvent'[h].body # << >>
          /\ prLast' = prLast]_vars

\* an event was summarized and its comment posted although no audit entry
\* could be written
C22_Witness ==
  /\ prLast.outcome = "summarized"
  /\ auditStore = << >>
  /\ comments # << >>

\* C23: every entry a logAudit call has written is, until its key expires,
\* in the store under that key as it was written
C23_AppendOnly ==
  \A r \in auditLogged :
     /\ r.key \in DOMAIN auditStore
     /\ auditStore[r.key].value = JSONStringifyEntry(r.entry)

\* C24: a CacheService call that met a store failure has thrown only if it
\* is resetRateLimit
C24_OnlyResetPropagates ==
  /\ (rlLast.op # "none" /\ rlLast.threw) => rlLast.op = "reset"
  /\ cacheLast.op # "none" => ~cacheLast.threw
  /\ (auditLast.op # "none" /\ auditLast.failed) => ~auditLast.threw

(***************************************************************************)
(* Rate limiter: reset                                                     *)
(***************************************************************************)
\* C25: a resetRateLimit call the store answers returns normally, leaves the
\* pair without a counter and the other counters alone, whether or not the
\* counter existed, so that a second reset changes nothing; the next
\* checkRateLimit of the pair counts 1 and is not limited
C25_ResetIdempotent ==
  [][\A c \in Callers, q \in Pairs :
       /\ ResetRateLimit(c, q) =>
            /\ ~rlLast'.threw
            /\ KeyOf(q) \notin DOMAIN rateStore'
            /\ \A key \in DOMAIN rateStore \ {KeyOf(q)} :
                  key \in DOMAIN rateStore' /\ rateStore'[key] = rateStore[key]
            /\ RedisDel(rateStore', KeyOf(q)) = rateStore'
       /\ (CheckRateLimitIncr(c, q) /\ KeyOf(q) \notin DOMAIN rateStore) =>
            /\ rateStore'[KeyOf(q)].value = 1
            /\ rlCall'[c].stage = "expire"
            /\ rlCall'[c].current = 1
       /\ (rlCall[c].stage = "expire" /\ rlCall[c].current = 1 /\ rlCall'[c] = NoCall) =>
            ~rlLast'.status.isLimited]_vars

\* a reset has returned and left its pair without a counter while the other
\* pair has one
C25_Witness ==
  /\ rlLast.op = "reset"
  /\ ~rlLast.threw
  /\ KeyOf(rlLast.pair) \notin DOMAIN rateStore
  /\ \E q \in Pairs : KeyOf(q) \in DOMAIN rateStore

(***************************************************************************)
(* handlePullRequestEvent: order of the steps                              *)
(***************************************************************************)
StepOrder ==
  <<"label-filter", "rate-limit", "cache-lookup", "fetch", "validate", "classify",
    "cache-write", "audit-write", "respond">>

Position(name) == CHOOSE i \in 1..Len(StepOrder) : StepOrder[i] = name

\* C26: the steps an event goes through follow the order label-filter,
\* rate-limit, cache lookup, fetch, validate, classify, cache-write,
\* audit-write, respond: of two steps taken, the earlier one stands earlier in
\* that order, so the cache write precedes the audit write and both precede
\* the comment
C26_StepOrder ==
  \A h \in DOMAIN prEvent :
    prEvent[h] # IdleEvent =>
      \A i, j \in 1..Len(prEvent[h].steps) :
        i < j => Position(prEvent[h].steps[i]) < Position(prEvent[h].steps[j])

(***************************************************************************)
(* handlePullRequestEvent: a failing classification                        *)
(***************************************************************************)
Occurrences(seq, name) == Cardinality({i \in 1..Len(seq) : seq[i] = name})

\* summarize throws in this step of the invocation of h: its last llm.invoke
\* failed with a fatal error or with its retries exhausted, or the circuit was
\* found open
SummarizeThrows(h) ==
  \/ prEvent[h].stage = "llm" /\ procFailedEvents' = procFailedEvents + 1
  \/ prEvent[h].stage = "fetch" /\ prLast' # prLast /\ prLast'.outcome = "circuit-open"

\* C27: when summarize throws, the invocation ends in that step by rethrowing
\* (no redis.quit, no normal return); the event has posted or updated no
\* comment, written no cache entry and no audit entry, neither before nor in
\* that step, and has called summarize once
C27_ClassificationAborts ==
  [][\A h \in DOMAIN prEvent :
       SummarizeThrows(h) =>
         /\ prEvent'[h] = IdleEvent
         /\ prLast'.outcome \in {"fatal-error", "circuit-open"}
         /\ ~prLast'.quit
         /\ comments' = comments
         /\ summaryStore' = summaryStore
         /\ auditStore' = auditStore
         /\ \A name \in {"respond", "cache-write", "audit-write"} :
               Occurrences(prEvent[h].steps, name) = 0
         /\ Occurrences(prEvent[h].steps, "classify") = 1]_vars

C27_Witness ==
  /\ BetweenEvents
  /\ prStarted = 1
  /\ procFailedEvents = 1
  /\ prLast.outcome = "fatal-error"
  /\ ~prLast.quit

(***************************************************************************)
(* postComment under lost responses                                        *)
(***************************************************************************)
\* C28: an event creates at most one comment: a step in which the invocation
\* of h adds a comment to the pull request is never preceded by a
\* createComment request of the same invocation that took effect
C28_AtMostOneComment ==
  [][\A h \in DOMAIN prEvent :
       (prEvent[h] # IdleEvent /\ Len(comments') > Len(comments)) =>
          prEvent[h].created = 0]_vars

(***************************************************************************)
(* handlePullRequestEvent: configured label filter and rate limit          *)
(***************************************************************************)
\* C29: an event whose pull request carries a label of the ignore list ends
\* as ignored-by-filter when it is delivered: no Redis command is issued for
\* it (the counter stays as it is), nothing is fetched, no summarize call is
\* started and no comment is posted
C29_IgnoredByLabel ==
  [][\A h \in DOMAIN prEvent, action \in PRActions, sha \in Shas, labels \in LabelSets :
       (ReceiveEvent(h, action, sha, labels)
          /\ shouldIgnoreByLabel(labels, ConfiguredIgnoreLabels)) =>
         /\ prEvent'[h] = IdleEvent
         /\ prLast'.outcome = "ignored-by-filter"
         /\ rateStore' = rateStore
         /\ comments' = comments]_vars

\* the invocation of h gets the answer of redis.incr in this step, and the
\* counter then counts only events delivered in this run, all of them within
\* the configured window
CountedBeyond(h, n) ==
  /\ prEvent[h].stage = "rate_incr"
  /\ rateStore' # rateStore
  /\ now <= CONFIG_WINDOW_SECONDS * 1000
  /\ rateStore'[KeyOf(PRPair)].value <= prStarted
  /\ rateStore'[KeyOf(PRPair)].value > n

\* C30: an event that is counted beyond the configured number of events of
\* the configured window (1 per 10 seconds) is rate-limited: its invocation
\* ends in that step with nothing fetched, summarized or posted
C30_ConfiguredRateLimit ==
  [][\A h \in DOMAIN prEvent :
       CountedBeyond(h, CONFIG_MAX_REQUESTS) =>
         /\ prEvent'[h] = IdleEvent
         /\ prLast'.outcome = "rate-limited"]_vars

(***************************************************************************)
(* SummarizerService: insufficient input and malformed responses           *)
(***************************************************************************)
\* C31: a summarize call with insufficient context returns the needs-input
\* result, invokes the LLM not at all and leaves circuitBreakerFailures and
\* circuitBreakerResetTime as they are, whatever the breaker state at the
\* time of the call
C31_NeedsInputWhateverBreaker ==
  [][\A s \in DOMAIN sumCall, context \in Contexts :
       (StartSummarize(s, context) /\ hasInsufficientContext(context)) =>
         /\ sumLast'.outcome = "needs_input"
         /\ sumCall'[s] = NoSummarize
         /\ llmInvocations' = llmInvocations
         /\ circuitBreakerFailures' = circuitBreakerFailures
         /\ circuitBreakerResetTime' = circuitBreakerResetTime]_vars

\* a response that is not parseable as JSON or lacks one of what, why, impact
MalformedResponse(content) ==
  LET parsed == JSONParse(ExtractJson(content))
  IN \/ ~parsed.ok
     \/ parsed.kind # "object"
     \/ \E k \in {"what", "why", "impact"} : k \notin DOMAIN parsed.value

\* C32: an attempt whose response is malformed ends the summarize call at
\* once: the call throws the error 'Invalid JSON response from LLM' without
\* sleeping or invoking the LLM again (a call on its first attempt has made
\* exactly one invocation), and circuitBreakerFailures has grown by exactly 1
C32_MalformedIsFatal ==
  [][\A s \in DOMAIN sumCall, content \in LLMResponses :
       (AttemptResponds(s, content) /\ MalformedResponse(content)) =>
         /\ sumCall'[s] = NoSummarize
         /\ sumLast' = [outcome |-> "error", error |-> ParseError]
         /\ Includes(sumLast'.error.message, "Invalid")
         /\ ~isRetriableError(sumLast'.error)
         /\ llmInvocations' = llmInvocations
         /\ circuitBreakerFailures' = circuitBreakerFailures + 1]_vars

\* the first summarize call of the instance threw the parse error after one
\* invocation
C32_Witness ==
  /\ sumLast = [outcome |-> "error", error |-> ParseError]
  /\ callsStarted = 1
  /\ llmInvocations = 1
  /\ circuitBreakerFailures = 1
  /\ \A s \in DOMAIN sumCall : sumCall[s] = NoSummarize

(***************************************************************************)
(* withRetry: backoff                                                      *)
(***************************************************************************)
\* C33: the sleep after failed attempt a (0-based) lasts d ms with
\* initialDelay * 2^a <= d < initialDelay * 2^a + 1000, initialDelay being
\* 1000 for the repository API and 2000 for the LLM; a sleep only follows a
\* retriable failure that is not the one of the final attempt, so a call that
\* threw has slept once less often than it failed
C33_Backoff ==
  retry.stage # "idle" =>
    LET initialDelay == IF retry.service = "github" THEN 1000 ELSE 2000
    IN /\ \A i \in 1..Len(retry.delays) :
            /\ initialDelay * 2^(i - 1) <= retry.delays[i]
            /\ retry.delays[i] < initialDelay * 2^(i - 1) + 1000
            /\ Retriable(retry.service, retry.raised[i])
            /\ i <= 2
       /\ Len(retry.delays) =
            IF retry.stage = "done" /\ retry.outcome.kind = "throw"
              THEN Len(retry.raised) - 1 ELSE Len(retry.raised)

\* a repository-API call that slept twice, the second time for the longest
\* delay possible, and then gave up
C33_Witness ==
  /\ retry.stage = "done"
  /\ retry.service = "github"
  /\ retry.outcome.kind = "throw"
  /\ Len(retry.delays) = 2
  /\ retry.delays[1] = 1000
  /\ retry.delays[2] = 2999

(***************************************************************************)
(* Rate limiter: concurrent calls                                          *)
(***************************************************************************)
\* C34: with the store reachable, whatever the interleaving of the calls of a
\* window on a pair, the n-th call to increment gets n as its own
\* post-increment count and computes its status from it, also when it
\* returns after later calls: it is limited exactly when n > limit, so of n
\* calls min(n, limit) are not limited
C34_AtomicIncrement ==
  /\ (Returned /\ ~rlLast.failed /\ rlLast.clean) =>
        /\ rlLast.current = rlLast.ordinal
        /\ rlLast.status = [limit |-> rlLast.limit,
                            remaining |-> IF rlLast.ordinal >= rlLast.limit THEN 0
                                          ELSE rlLast.limit - rlLast.ordinal,
                            isLimited |-> rlLast.ordinal > rlLast.limit]
  /\ \A c \in Callers :
        (rlCall[c].stage = "expire" /\ rlCall[c].clean) =>
           rlCall[c].current = rlCall[c].ordinal

\* the second call of a window has returned with count 2 while the first
\* call still awaits its redis.expire
C34_Witness ==
  /\ Returned /\ ~rlLast.failed /\ rlLast.clean
  /\ rlLast.ordinal = 2
  /\ rlLast.current = 2
  /\ \E c \in Callers :
        /\ rlCall[c].stage = "expire"
        /\ rlCall[c].pair = rlLast.pair
        /\ rlCall[c].ordinal = 1

(***************************************************************************)
(* handlePullRequestEvent: early exits                                     *)
(***************************************************************************)
\* checkRateLimit of the invocation of h returns a status with isLimited in
\* this step
ReturnsLimited(h) ==
  /\ prEvent[h].stage = "rate_incr"
  /\ rateStore' # rateStore
  /\ ComputedStatus(HANDLER_MAX_REQUESTS, rateStore'[KeyOf(PRPair)].value).isLimited

\* C35: an event whose checkRateLimit returns isLimited = true ends in that
\* step as rate-limited, by a normal return after redis.quit; it has taken the
\* steps label-filter and rate-limit only, and comments, summary cache and
\* audit log are as they were
C35_RateLimitedDoesNothing ==
  [][\A h \in DOMAIN prEvent :
       ReturnsLimited(h) =>
         /\ prEvent'[h] = IdleEvent
         /\ prLast' = [outcome |-> "rate-limited", quit |-> TRUE]
         /\ prEvent[h].steps = <<"label-filter", "rate-limit">>
         /\ prEvent[h].llm = 0
         /\ comments' = comments
         /\ summaryStore' = summaryStore
         /\ auditStore' = auditStore]_vars

\* the event counted as the 11th of the window has ended as rate-limited
C35_Witness ==
  /\ BetweenEvents
  /\ prLast.outcome = "rate-limited"
  /\ rateStore[KeyOf(PRPair)].value = HANDLER_MAX_REQUESTS + 1

\* C36: no value stored under a summary key is a '[NEEDS_INPUT]' result:
\* each parses to a summary whose `what` is not the sentinel, and the body of
\* a comment served from the cache is never the needs-input message nor a
\* summary with the sentinel
C36_SentinelNeverCached ==
  /\ \A key \in DOMAIN summaryStore :
        LET parsed == JSONParse(summaryStore[key].value)
        IN /\ parsed.ok
           /\ parsed.kind = "object"
           /\ parsed.value["what"] # "[NEEDS_INPUT]"
  /\ \A h \in DOMAIN prEvent :
        (prEvent[h] # IdleEvent /\ prEvent[h].hit) =>
           /\ prEvent[h].body # formatNeedsInputMessage
           /\ prEvent[h].body[2] # "[NEEDS_INPUT]"

\* an event whose classification gave the sentinel has been answered with the
\* needs-input message and has ended without a cache entry
C36_Witness ==
  /\ BetweenEvents
  /\ prLast.outcome = "summarized"
  /\ summaryStore = << >>
  /\ auditStore # << >>
  /\ Len(comments) = 1
  /\ comments[1].body = formatNeedsInputMessage

\* C37: isValidDiffSize(additions, deletions, max) is true exactly when
\* 0 < additions + deletions <= max, and an event whose fetched diff fails
\* the check ends in that step as diff-too-large, with no summarize call
\* started and the comments as they were
C37_DiffSizeValidation ==
  [][\A h \in DOMAIN prEvent, pull \in DiffPulls :
       Fetch(h, pull) =>
         LET total == pull.additions + pull.deletions
             valid == isValidDiffSize(pull.additions, pull.deletions, MAX_DIFF_SIZE_LINES)
         IN /\ valid <=> (0 < total /\ total <= 5000)
            /\ ~valid =>
                 /\ prEvent'[h] = IdleEvent
                 /\ prLast' = [outcome |-> "diff-too-large", quit |-> TRUE]
                 /\ prEvent[h].llm = 0
                 /\ Occurrences(prEvent[h].steps, "classify") = 0
                 /\ Occurrences(prEvent[h].steps, "respond") = 0
                 /\ comments' = comments
            /\ valid =>
                 /\ prEvent'[h] # IdleEvent
                 /\ prEvent'[h].stage = "llm"]_vars

\* an event has ended as diff-too-large without a comment
C37_Witness ==
  /\ BetweenEvents
  /\ prStarted = 1
  /\ prLast.outcome = "diff-too-large"
  /\ comments = << >>
  /\ summaryStore = << >>

(***************************************************************************)
(* handlePullRequestEvent: concurrent events                               *)
(***************************************************************************)
\* C38: the pull request carries at most one comment of the bot, whatever
\* the interleaving of the events handled for it: an invocation that posts
\* when a bot comment exists updates it
C38_OneBotComment ==
  Cardinality({i \in 1..Len(comments) : comments[i].login = appLogin}) <= 1

(***************************************************************************)
(* handlePullRequestEvent: the Redis connection                            *)
(***************************************************************************)
\* C39: every invocation has called redis.quit on the connection it opened
\* by the time it ends, whatever its exit path: when no invocation is in
\* flight, no connection opened by the handler is still open
C39_ConnectionClosed == BetweenEvents => connections = 0

(***************************************************************************)
(* Circuit breaker: the fields                                             *)
(***************************************************************************)
\* C40: circuitBreakerFailures is never negative, and while it is at or above
\* the threshold circuitBreakerResetTime is the time of the most recent
\* failed attempt plus 60000 ms: the step that records a failure at or above
\* the threshold sets it to the current time plus 60000, a step that records
\* none leaves it as it is, and so it is not 0
C40_BreakerFields ==
  [][/\ circuitBreakerFailures' >= 0
     /\ circuitBreakerFailures' >= 5 =>
          /\ circuitBreakerResetTime' # 0
          /\ IF circuitBreakerFailures' = circuitBreakerFailures + 1
               THEN circuitBreakerResetTime' = now + 60000
               ELSE /\ circuitBreakerFailures' = circuitBreakerFailures
                    /\ circuitBreakerResetTime' = circuitBreakerResetTime]_vars

\* two calls in flight have failed in turn at different times with the
\* breaker already open: the reset time follows the later failure
C40_Witness ==
  /\ circuitBreakerFailures > CIRCUIT_BREAKER_THRESHOLD
  /\ now > 0
  /\ circuitBreakerResetTime = now + CIRCUIT_BREAKER_COOLDOWN

====
